---- MODULE Spec2Model ----
(***************************************************************************)
(* The stateful AJAX scraping engine of vahan_jsf_requests/scraper_requests *)
(* (VahanAjaxScraper.run with bootstrap, change_select, refresh_and_save,   *)
(* fetch_page and the transport send_ajax_request) as a state machine.      *)
(*                                                                         *)
(* Text is a sequence of one-character strings, so that trimming, case      *)
(* folding, substring search and whitespace collapsing are computed.        *)
(* Python's None is the string "None" where the value is a token or an      *)
(* option value, and NoInt where it is an integer.                          *)
(***************************************************************************)
EXTENDS Integers, Sequences, FiniteSets, TLC

VARIABLES
    pc,             \* position of run()
    view_state,     \* self.view_state
    form_id,        \* self.form_id
    current,        \* the closure variable current of run(): field -> value or None
    options,        \* yaxis_options, xaxis_options, year_options after filtering
    auto,           \* the local auto of run()
    chosen,         \* (y_sel, x_sel, yr_sel): the options picked so far
    call,           \* the send_ajax_request call in progress, or NoCall
    page,           \* locals of refresh_and_save during pagination
    files,          \* raw_responses: artifact kind -> content
    log,            \* errors.log: the entries run() and its closures wrote
    gets,           \* number of GET requests issued
    posted,         \* whether a POST has been issued
    calls,          \* the finished send_ajax_request calls: kind, page, result
    issued,         \* the token the server issued last (bootstrap or a 200)
    answers,        \* transport harness: the answers to the attempts of the call
    result,         \* transport harness: how the call ended
    document,       \* what the bootstrap document had: ViewState input, form id
    rendered        \* the option elements the last selection response rendered

vars == <<pc, view_state, form_id, current, options, auto, chosen, call, page,
          files, log, gets, posted, calls, issued, answers, result,
          document, rendered>>

----------------------------------------------------------------------------
(* Bounds of the model *)

\* largest rowCount the first fragment announces
MaxRowCount == 5
\* largest page size the first fragment announces, and most rows in one page
MaxPageSize == 2
\* most page fetches the no-growth probing loop is driven through
MaxProbe == 2

(* Program constants *)

\* send_ajax_request(..., retries: int = 3)
Retries == 3
\* for page_index in range(1, 500)
SafetyCap == 500

None == "None"
NoInt == -1

----------------------------------------------------------------------------
(* Text helpers *)

NBSP == "\\xa0"
Whitespace == {" ", "\t", "\n"}

RECURSIVE LStrip(_)
LStrip(s) ==
    IF s # <<>> /\ Head(s) \in Whitespace THEN LStrip(Tail(s)) ELSE s

RECURSIVE RStrip(_)
RStrip(s) ==
    IF s # <<>> /\ s[Len(s)] \in Whitespace
    THEN RStrip(SubSeq(s, 1, Len(s) - 1)) ELSE s

\* str.strip()
Strip(s) == RStrip(LStrip(s))

UpperCase ==
    <<"A", "B", "C", "D", "E", "F", "G", "H", "I", "J", "K", "L", "M",
      "N", "O", "P", "Q", "R", "S", "T", "U", "V", "W", "X", "Y", "Z">>
LowerCase ==
    <<"a", "b", "c", "d", "e", "f", "g", "h", "i", "j", "k", "l", "m",
      "n", "o", "p", "q", "r", "s", "t", "u", "v", "w", "x", "y", "z">>

LowerChar(c) ==
    IF \E i \in 1..26 : UpperCase[i] = c
    THEN LowerCase[CHOOSE i \in 1..26 : UpperCase[i] = c]
    ELSE c

\* str.lower()
Lower(s) == [i \in 1..Len(s) |-> LowerChar(s[i])]

\* sub in s
Contains(sub, s) ==
    \E i \in 0..(Len(s) - Len(sub)) : SubSeq(s, i + 1, i + Len(sub)) = sub

\* str.replace(' ', '_')
Underscored(s) == [i \in 1..Len(s) |-> IF s[i] = " " THEN "_" ELSE s[i]]

Digits == {"0", "1", "2", "3", "4", "5", "6", "7", "8", "9"}

\* re.fullmatch(r'\d+', s)
IsDigits(s) == s # <<>> /\ \A i \in 1..Len(s) : s[i] \in Digits

\* re.fullmatch(r'[0-9,]+', s)
IsNumeric(s) == s # <<>> /\ \A i \in 1..Len(s) : s[i] \in Digits \cup {","}

RECURSIVE JoinWords(_, _, _)
JoinWords(s, i, acc) ==
    IF i > Len(s) THEN acc
    ELSE IF s[i] \in Whitespace THEN JoinWords(s, i + 1, acc)
    ELSE IF acc # <<>> /\ i > 1 /\ s[i - 1] \in Whitespace
         THEN JoinWords(s, i + 1, acc \o <<" ", s[i]>>)
         ELSE JoinWords(s, i + 1, Append(acc, s[i]))

\* ' '.join(txt.replace('\xa0', ' ').split())
clean_cell_text(txt) ==
    JoinWords([i \in 1..Len(txt) |-> IF txt[i] = NBSP THEN " " ELSE txt[i]],
              1, <<>>)

RECURSIVE DecStr(_)
\* str(n) for n >= 0
DecStr(n) ==
    LET d == <<"0", "1", "2", "3", "4", "5", "6", "7", "8", "9">>
    IN  IF n < 10 THEN <<d[n + 1]>> ELSE Append(DecStr(n \div 10), d[(n % 10) + 1])

----------------------------------------------------------------------------
(* FragmentCodec: parts of the partial-response envelope and of a fragment *)

\* An envelope is [vs, combTablePnl, groupingTable]: vs is the text of the
\* first update whose id ends in ViewState (None when there is no such update),
\* the other two are the updates with these ids: NoUpdate when absent,
\* EmptyText when the update has no text, else a fragment.
\* A fragment is [kind |-> "table", tag, head, body, rowCount, rows]:
\* head are the tr of its thead and body the tr of its tbody, each a sequence
\* of cell texts; rowCount and rows are the numbers the widget script carries.
NoUpdate == [kind |-> "absent"]
EmptyText == [kind |-> "empty"]

\* Python truthiness of the Optional[str] that extract_update_fragment returns
Truthy(fragment) == fragment.kind = "table"

extract_update_fragment(xml, update_id) ==
    IF update_id = "combTablePnl" THEN xml.combTablePnl ELSE xml.groupingTable

extract_table_pagination_meta(fragment) == <<fragment.rowCount, fragment.rows>>

RECURSIVE DataRows(_)
\* the loop over tbody.find_all('tr') in parse_datatable_fragment
DataRows(trs) ==
    IF trs = <<>> THEN <<>>
    ELSE LET cells == Head(trs)
             row == [i \in 1..Len(cells) |-> clean_cell_text(cells[i])]
         IN  (IF cells # <<>> /\ \E i \in 1..Len(row) : Strip(row[i]) # <<>>
              THEN <<row>> ELSE <<>>) \o DataRows(Tail(trs))

RECURSIVE PageRows(_)
\* the loop over tbody.find_all('tr') in fetch_page
PageRows(trs) ==
    IF trs = <<>> THEN <<>>
    ELSE LET cells == Head(trs)
             row == [i \in 1..Len(cells) |-> clean_cell_text(cells[i])]
         IN  (IF \E i \in 1..Len(row) : Strip(row[i]) # <<>>
              THEN <<row>> ELSE <<>>) \o PageRows(Tail(trs))

RECURSIVE MaxLen(_)
\* max((len(r) for r in rows), default=0)
MaxLen(rows) ==
    IF rows = <<>> THEN 0
    ELSE LET m == MaxLen(Tail(rows))
         IN  IF Len(Head(rows)) >= m THEN Len(Head(rows)) ELSE m

\* max(head_rows, key=number of cells): the first of the widest rows
MaxRow(head_rows) ==
    LET w == MaxLen(head_rows)
        i == CHOOSE k \in 1..Len(head_rows) :
                 /\ Len(head_rows[k]) = w
                 /\ \A j \in 1..(k - 1) : Len(head_rows[j]) < w
    IN  head_rows[i]

MonthNames ==
    <<<<"J","A","N">>, <<"F","E","B">>, <<"M","A","R">>,
      <<"A","P","R">>, <<"M","A","Y">>, <<"J","U","N">>,
      <<"J","U","L">>, <<"A","U","G">>, <<"S","E","P">>,
      <<"O","C","T">>, <<"N","O","V">>, <<"D","E","C">>>>

SNo == <<"S", " ", "N", "o">>
Maker == <<"M", "a", "k", "e", "r">>
TOTAL == <<"T", "O", "T", "A", "L">>

ColName(i) == <<"c", "o", "l", "_">> \o DecStr(i)

\* the header inference of parse_datatable_fragment
InferHeaders(headers, rows) ==
    IF (headers = <<>> \/ \A i \in 1..Len(headers) : headers[i] = <<>>)
       /\ rows # <<>>
    THEN LET first == rows[1]
         IN  IF Len(first) >= 5 /\ IsDigits(first[1]) /\ ~IsNumeric(first[2])
             THEN IF Len(first) >= 15
                  THEN <<SNo, Maker>> \o MonthNames \o <<TOTAL>>
                  ELSE LET tail == Len(first) - 2
                       IN  IF tail >= 2
                           THEN <<SNo, Maker>> \o SubSeq(MonthNames, 1, tail - 1)
                                \o <<TOTAL>>
                           ELSE headers
             ELSE headers
    ELSE headers

\* a normalisation that adds no placeholder name
NormalizeHeaders_NoPlaceholders(headers, rows) == headers

\* the width normalisation of parse_datatable_fragment
NormalizeHeaders(headers, rows) ==
    LET max_cols == MaxLen(rows)
    IN  IF headers # <<>> /\ Len(headers) < max_cols
        THEN headers \o [i \in 1..(max_cols - Len(headers)) |->
                            ColName(Len(headers) + i - 1)]
        ELSE IF headers = <<>> /\ max_cols # 0
        THEN [i \in 1..max_cols |-> ColName(i - 1)]
        ELSE headers

parse_datatable_fragment(fragment) ==
    LET head0 == IF fragment.head # <<>>
                 THEN LET max_row == MaxRow(fragment.head)
                      IN  [i \in 1..Len(max_row) |-> clean_cell_text(max_row[i])]
                 ELSE <<>>
        rows == DataRows(fragment.body)
    IN  [headers |-> NormalizeHeaders(InferHeaders(head0, rows), rows),
         rows |-> rows]

\* build_html_table: the cells are written into th and td as they are
build_html_table(headers, rows) ==
    [kind |-> "table", tag |-> "combinedFull", head |-> <<headers>>,
     body |-> rows, rowCount |-> NoInt, rows |-> NoInt]

----------------------------------------------------------------------------
(* extract_all.py: clean_cell and parse_table *)

\* the markup of a table that parse_table looks at besides the cells: whether
\* the tbody has an id ending in _data, whether its rows carry role="row",
\* whether the header cells carry role="columnheader"
Markup(fragment, data_id, row_role, header_role) ==
    [table |-> fragment, data_id |-> data_id, row_role |-> row_role,
     header_role |-> header_role]

\* the document build_html_table writes: a thead and a tbody without id, rows
\* and cells without role
CombinedMarkup(fragment) == Markup(fragment, FALSE, FALSE, FALSE)

\* txt.replace(',', '')
NoCommas(txt) == SelectSeq(txt, LAMBDA c : c # ",")

\* clean_cell: strip, then commas out of a numeric cell, else \s+ to one space
clean_cell(txt) ==
    LET t == Strip([i \in 1..Len(txt) |-> IF txt[i] = NBSP THEN " " ELSE txt[i]])
    IN  IF IsNumeric(t) THEN NoCommas(t) ELSE JoinWords(t, 1, <<>>)

RECURSIVE TableRows(_)
\* the loops over the tr of a tbody in parse_table
TableRows(trs) ==
    IF trs = <<>> THEN <<>>
    ELSE LET cells == Head(trs)
             row == [i \in 1..Len(cells) |-> clean_cell(cells[i])]
         IN  (IF \E i \in 1..Len(row) : Strip(row[i]) # <<>>
              THEN <<row>> ELSE <<>>) \o TableRows(Tail(trs))

\* lines 59-77: with a tbody whose id ends in _data only its role="row" rows
BodyRows(html) ==
    IF html.data_id
    THEN IF html.row_role THEN TableRows(html.table.body) ELSE <<>>
    ELSE TableRows(html.table.body)

RECURSIVE Flatten(_)
Flatten(head_rows) ==
    IF head_rows = <<>> THEN <<>> ELSE Head(head_rows) \o Flatten(Tail(head_rows))

\* lines 80-92: the role="columnheader" cells of the thead, else its widest row
HeaderCells(html) ==
    LET head == html.table.head
        role_headers == IF html.header_role THEN Flatten(head) ELSE <<>>
        cells == IF role_headers # <<>> THEN role_headers
                 ELSE IF head # <<>> THEN MaxRow(head) ELSE <<>>
    IN  [i \in 1..Len(cells) |-> clean_cell(cells[i])]

\* f'M{i+1}'
MName(i) == <<"M">> \o DecStr(i + 1)

\* lines 95-110: the header inference of parse_table
InferTableHeaders(headers, data_rows) ==
    IF (headers = <<>> \/ \A i \in 1..Len(headers) : headers[i] = <<>>)
       /\ data_rows # <<>>
    THEN LET first == data_rows[1]
         IN  IF Len(first) >= 5 /\ IsDigits(first[1]) /\ ~IsNumeric(first[2])
             THEN IF Len(first) >= 14
                  THEN <<SNo, Maker>> \o MonthNames \o <<TOTAL>>
                  ELSE LET numeric_tail == Len(first) - 2
                       IN  IF numeric_tail >= 2
                           THEN <<SNo, Maker>>
                                \o SubSeq(MonthNames, 1, numeric_tail - 1)
                                \o <<TOTAL>>
                           ELSE <<SNo, Maker>>
                                \o [i \in 1..numeric_tail |-> MName(i - 1)]
             ELSE headers
    ELSE headers

\* r.extend([''] * (width - len(r))), del r[width:]
Resized(r, width) ==
    IF Len(r) < width THEN r \o [i \in 1..(width - Len(r)) |-> <<>>]
    ELSE SubSeq(r, 1, width)

\* lines 113-125: rows padded and truncated to the headers, or placeholder
\* headers as wide as the widest row
NormalizeTable(headers, data_rows) ==
    IF headers # <<>>
    THEN [headers |-> headers,
          rows |-> [k \in 1..Len(data_rows) |->
                       Resized(data_rows[k], Len(headers))]]
    ELSE LET width == MaxLen(data_rows)
         IN  [headers |-> [i \in 1..width |-> ColName(i - 1)],
              rows |-> [k \in 1..Len(data_rows) |->
                           IF Len(data_rows[k]) < width
                           THEN Resized(data_rows[k], width)
                           ELSE data_rows[k]]]

parse_table(html) ==
    LET data_rows == BodyRows(html)
    IN  NormalizeTable(InferTableHeaders(HeaderCells(html), data_rows), data_rows)

----------------------------------------------------------------------------
(* SessionState and option discovery *)

CurrentKeys ==
    {"j_idt26_input", "j_idt34_input", "selectedRto_input",
     "selectedYearType_input", "yaxisVar_input", "xaxisVar_input",
     "selectedYear_input"}

\* k.replace('_input', '_focus')
FocusOf(k) ==
    CASE k = "j_idt26_input" -> "j_idt26_focus"
      [] k = "j_idt34_input" -> "j_idt34_focus"
      [] k = "selectedRto_input" -> "selectedRto_focus"
      [] k = "selectedYearType_input" -> "selectedYearType_focus"
      [] k = "yaxisVar_input" -> "yaxisVar_focus"
      [] k = "xaxisVar_input" -> "xaxisVar_focus"
      [] k = "selectedYear_input" -> "selectedYear_focus"

FocusKeys == {FocusOf(k) : k \in CurrentKeys}

\* the dict current that run() starts from
InitialCurrent ==
    [k \in CurrentKeys |->
        CASE k = "j_idt26_input" -> "A"
          [] k = "j_idt34_input" -> "-1"
          [] k = "selectedRto_input" -> "-1"
          [] k = "selectedYearType_input" -> "C"
          [] OTHER -> None]

\* extra = {k: v for k, v in current.items() if v is not None}, then
\* extra[k.replace('_input', '_focus')] = '' for every key
StateFields(cur) ==
    [k \in {c \in CurrentKeys : cur[c] # None} \cup FocusKeys |->
        IF k \in FocusKeys THEN "" ELSE cur[k]]

\* the extra fields refresh_and_save adds
RefreshFields(cur) ==
    ("j_idt66" :> "j_idt66") @@ ("groupingTable_scrollState" :> "0,0")
    @@ StateFields(cur)

\* a fetch_page that sends the page index as the row offset
PageFields_IndexAsOffset(cur, page_index, page_size) ==
    [k \in {"groupingTable", "groupingTable_pagination",
            "groupingTable_skipChildren", "groupingTable_encodeFeature",
            "groupingTable_scrollState"} |->
        CASE k = "groupingTable" -> "groupingTable"
          [] k = "groupingTable_scrollState" -> "0,0"
          [] OTHER -> "true"]
    @@ [k \in {"groupingTable_first", "groupingTable_rows"} |->
        IF k = "groupingTable_first" THEN DecStr(page_index)
        ELSE DecStr(page_size)]
    @@ StateFields(cur)

\* the extra fields fetch_page adds; first = page_index * page_size
PageFields(cur, page_index, page_size) ==
    [k \in {"groupingTable", "groupingTable_pagination",
            "groupingTable_skipChildren", "groupingTable_encodeFeature",
            "groupingTable_scrollState"} |->
        CASE k = "groupingTable" -> "groupingTable"
          [] k = "groupingTable_scrollState" -> "0,0"
          [] OTHER -> "true"]
    @@ [k \in {"groupingTable_first", "groupingTable_rows"} |->
        IF k = "groupingTable_first" THEN DecStr(page_index * page_size)
        ELSE DecStr(page_size)]
    @@ StateFields(cur)

NoOption == [val |-> None, lab |-> <<>>]

\* get_dropdown_options: options without value are skipped, labels stripped
get_dropdown_options(raw) ==
    LET kept == SelectSeq(raw, LAMBDA o : o.val # None /\ o.val # "")
    IN  [i \in 1..Len(kept) |-> [val |-> kept[i].val, lab |-> Strip(kept[i].lab)]]

Select == <<"S", "e", "l", "e", "c", "t">>

\* [(v, l) for v, l in year_options if v and 'Select' not in l]
FilterYear(opts) == SelectSeq(opts, LAMBDA o : ~Contains(Select, o.lab))

\* a match_option without the pass for equal labels
match_option_FirstContaining(label, opts) ==
    IF label = <<>> THEN NoOption
    ELSE LET label_norm == Lower(Strip(label))
             part == {i \in 1..Len(opts) :
                         Contains(label_norm, Lower(Strip(opts[i].lab)))}
         IN  IF part # {} THEN opts[CHOOSE i \in part : \A j \in part : i <= j]
             ELSE NoOption

\* match_option of run(): exact label first, then the first label containing it
match_option(label, opts) ==
    IF label = <<>> THEN NoOption
    ELSE LET label_norm == Lower(Strip(label))
             exact == {i \in 1..Len(opts) : Lower(Strip(opts[i].lab)) = label_norm}
             part == {i \in 1..Len(opts) :
                         Contains(label_norm, Lower(Strip(opts[i].lab)))}
             First(S) == CHOOSE i \in S : \A j \in S : i <= j
         IN  IF exact # {} THEN opts[First(exact)]
             ELSE IF part # {} THEN opts[First(part)]
             ELSE NoOption

----------------------------------------------------------------------------
(* AjaxTransport: send_ajax_request *)

NoCall == [kind |-> "none"]

\* the dict data of send_ajax_request and the loop counter; kind and
\* page_index tell which caller the call returns to
MkCall(kind, fid, vs, source, execute, render, fields, page_index, retries) ==
    [kind |-> kind, page_index |-> page_index, attempt |-> 0, retries |-> retries,
     data |-> [source |-> source, execute |-> execute, render |-> render,
               form_id |-> fid, view_state |-> vs, fields |-> fields]]

\* a transport that takes the text of the update even when it is empty
NewViewState_AnyText(xml, view_state_arg) ==
    IF xml.vs # None THEN xml.vs ELSE view_state_arg

\* lines 87-90: the token send_ajax_request returns on a 200
NewViewState(xml, view_state_arg) ==
    IF xml.vs # None /\ xml.vs # "" THEN xml.vs ELSE view_state_arg

\* a loop over range(retries + 1)
MayAttempt_OneMore(c) == c.kind # "none" /\ c.attempt <= c.retries

\* one more attempt is issued only while attempt is in range(1, retries + 1)
MayAttempt(c) == c.kind # "none" /\ c.attempt < c.retries

\* the failed attempt was the last one of the loop: line 95 raises
Exhausted(c) == c.attempt + 1 >= c.retries

----------------------------------------------------------------------------
(* Artifacts and log *)

ArtifactKinds == {"raw", "combined", "csv"}
NoFile == [kind |-> "absent"]

\* fname = f"{vehicle}_{manufacturer}_{year}.html".replace(' ', '_')
HtmlName(vehicle, manufacturer, year) ==
    Underscored(vehicle \o <<"_">> \o manufacturer \o <<"_">> \o year
                \o <<".", "h", "t", "m", "l">>)

\* fname = f"{base_name}_{year}.csv".replace(' ', '_')
CsvName(base_name, year) ==
    Underscored(base_name \o <<"_">> \o year \o <<".", "c", "s", "v">>)

NA == <<"N", "A">>
ALLPAGES == <<"_", "A", "L", "L", "P", "A", "G", "E", "S">>

\* base = f"{y_label}_{x_label}".replace(' ', '_')
BaseName(y_label, x_label) == Underscored(y_label \o <<"_">> \o x_label)

Entry(level, msg, source, n) ==
    [level |-> level, msg |-> msg, source |-> source, n |-> n]

Completed == Entry("INFO", "Completed single combination extraction", "", 0)

\* a refresh_and_save that writes the rows of the first page only
SavedFiles_FirstPage(fragment, headers, rows, base, year_label) ==
    [k \in ArtifactKinds |->
        IF k = "raw"
        THEN [kind |-> "file", name |-> HtmlName(base, NA, year_label),
              content |-> fragment]
        ELSE IF headers # <<>> /\ rows # <<>>
        THEN IF k = "combined"
             THEN [kind |-> "file",
                   name |-> HtmlName(base \o ALLPAGES, NA, year_label),
                   content |-> build_html_table(headers, DataRows(fragment.body))]
             ELSE [kind |-> "file", name |-> CsvName(base \o ALLPAGES, year_label),
                   content |-> [headers |-> headers,
                                rows |-> DataRows(fragment.body)]]
        ELSE NoFile]

\* lines 308-315: what refresh_and_save writes once the pagination has ended
SavedFiles(fragment, headers, rows, base, year_label) ==
    [k \in ArtifactKinds |->
        IF k = "raw"
        THEN [kind |-> "file", name |-> HtmlName(base, NA, year_label),
              content |-> fragment]
        ELSE IF headers # <<>> /\ rows # <<>>
        THEN IF k = "combined"
             THEN [kind |-> "file",
                   name |-> HtmlName(base \o ALLPAGES, NA, year_label),
                   content |-> build_html_table(headers, rows)]
             ELSE [kind |-> "file", name |-> CsvName(base \o ALLPAGES, year_label),
                   content |-> [headers |-> headers, rows |-> rows]]
        ELSE NoFile]

SavedLog(headers, rows) ==
    <<Entry("INFO", "Saved", "raw", 0)>>
    \o (IF headers # <<>> /\ rows # <<>>
        THEN <<Entry("INFO", "Saved", "combined", 0),
               Entry("INFO", "Saved", "csv", 0),
               Entry("INFO", "Saved combined rows", "", Len(rows))>>
        ELSE <<>>)

----------------------------------------------------------------------------
(* PaginationDriver: the decisions of refresh_and_save *)

NoPage ==
    [loop |-> "none", fragment |-> NoUpdate, headers |-> <<>>, rows |-> <<>>,
     total_pages |-> 0, page_size |-> NoInt, page_index |-> 0,
     fetched_pages |-> 0, first_rows |-> 0]

\* the quotient rounded down instead of up
Ceil_Floor(total_rows, page_size) == total_rows \div page_size

\* math.ceil(total_rows / page_size)
Ceil(total_rows, page_size) == (total_rows + page_size - 1) \div page_size

\* lines 276 and 289: which loop runs
LoopOf(total_rows, page_size, nrows) ==
    IF total_rows # NoInt /\ total_rows # 0 /\ page_size # NoInt /\ page_size # 0
       /\ total_rows > nrows
    THEN "exact"
    ELSE IF page_size # NoInt /\ page_size # 0 /\ page_size > 0
    THEN "probe"
    ELSE "none"

\* a probing loop over range(1, 1000)
RangeEnd_WideCap(loop, total_pages) ==
    IF loop = "exact" THEN total_pages ELSE IF loop = "probe" THEN 1000 ELSE 1

\* the exclusive upper end of the range the loop runs over
RangeEnd(loop, total_pages) ==
    IF loop = "exact" THEN total_pages ELSE IF loop = "probe" THEN SafetyCap ELSE 1

\* the rows fetch_page returns for an envelope
fetch_page_rows(xml) ==
    LET fragment == extract_update_fragment(xml, "groupingTable")
    IN  IF Truthy(fragment) THEN PageRows(fragment.body) ELSE <<>>

\* a loop without `if not page_rows: break`
LoopContinues_OnEmpty(pg, page_rows) ==
    /\ pg.loop = "probe" => Len(page_rows) >= pg.page_size
    /\ pg.page_index + 1 < RangeEnd(pg.loop, pg.total_pages)

\* lines 281-303: whether the loop goes on to the next page after this one
LoopContinues(pg, page_rows) ==
    /\ page_rows # <<>>
    /\ pg.loop = "probe" => Len(page_rows) >= pg.page_size
    /\ pg.page_index + 1 < RangeEnd(pg.loop, pg.total_pages)

\* a loop that keeps the rows of the last page only
RowsAfter_PageOnly(rows, page_rows) == page_rows

\* rows.extend(page_rows), unless the loop broke before it
RowsAfter(rows, page_rows) == rows \o page_rows

----------------------------------------------------------------------------
(* The inputs: bootstrap documents, command lines, server responses *)

\* the tokens the server issues in a run, after the one of the document
Tokens == {"t1"}
\* text of the ViewState update of an envelope; None: no such update
VsTexts == {None, ""} \cup Tokens

yA == [val |-> "4", lab |-> <<"V", " ", "c">>]
yB == [val |-> "5", lab |-> <<"N", "o">>]
xA == [val |-> "0", lab |-> <<" ", "Y", "w">>]
yrSelect == [val |-> "0", lab |-> <<"S", "e", "l", "e", "c", "t", " ", "Y">>]
yr24 == [val |-> "3", lab |-> <<"2", "4">>]
blankOpt == [val |-> "", lab |-> <<"S", "e", "l">>]

\* a document: status of the GET, the value of the ViewState input ("absent":
\* no such input, None: the input has no value attribute), the id of the first
\* form ("absent": no form, None: no id attribute), the option elements
Docs ==
    [status : {"ok", "error"},
     vs : {"absent", None, "", "t0"},
     form : {"absent", None, "", "f1"},
     yaxis : {<<>>, <<blankOpt, yA, yB>>},
     xaxis : {<<>>, <<xA>>},
     year : {<<>>, <<yrSelect>>, <<yrSelect, yr24>>}]

\* --y, --x, --year; the empty text when the flag is not given
Args ==
    {[y_label |-> <<>>, x_label |-> <<>>, year_label |-> <<>>],
     [y_label |-> <<"v", " ", "C">>, x_label |-> <<"y">>, year_label |-> <<"2", "4">>],
     [y_label |-> <<"N", "o">>, x_label |-> <<"Y", "w">>, year_label |-> <<"9">>]}

Digit(n) == DecStr(n)

\* row i of page p as the server renders it
Row(p, i) == <<Digit(p), <<"r">> \o Digit(i)>>

Body(p, n) == [i \in 1..n |-> Row(p, i)]

\* a body whose only row is blank
BlankBody == << <<<<" ">>, <<NBSP>>>> >>

HeadRow == << <<<<"M">>, <<"T">>>> >>

Frag(tag, head, body, rowCount, rows) ==
    [kind |-> "table", tag |-> tag, head |-> head, body |-> body,
     rowCount |-> rowCount, rows |-> rows]

FirstFrags(tag) ==
    {Frag(tag, HeadRow, Body(0, n), rc, ps) :
        n \in 0..MaxPageSize,
        rc \in {NoInt} \cup 0..MaxRowCount, ps \in {NoInt} \cup 0..MaxPageSize}

xB == [val |-> "1", lab |-> <<"Y", "m">>]
yr25 == [val |-> "2", lab |-> <<"2", "5">>]

\* the option elements of the update a selection renders: the X-axis dropdown
\* after a Y-axis selection, the year dropdown after an X-axis selection, as
\* the document had them or others; the year selection renders no dropdown
\* that a later selection depends on
Repopulated(kind) ==
    CASE kind = "yaxis" -> {<<xA>>, <<xB>>}
      [] kind = "xaxis" -> {<<yrSelect, yr24>>, <<yrSelect, yr25>>}
      [] kind = "year" -> {<<>>}

SelectEnvelopes(kind) ==
    [vs : VsTexts, combTablePnl : {NoUpdate}, groupingTable : {NoUpdate},
     options : Repopulated(kind)]

GroupFrag == Frag("group", <<>>, Body(0, 1), NoInt, NoInt)

\* with a combTablePnl fragment the groupingTable update is not looked at
RefreshEnvelopes ==
    [vs : VsTexts, combTablePnl : {NoUpdate, EmptyText},
     groupingTable : {NoUpdate, EmptyText, GroupFrag}]
    \cup [vs : VsTexts, combTablePnl : FirstFrags("comb"),
          groupingTable : {NoUpdate}]
    \cup [vs : VsTexts,
          combTablePnl : {Frag("comb", HeadRow, Body(0, 1), NoInt, NoInt)},
          groupingTable : {GroupFrag}]

\* a page without the update, with an empty one, with blank rows, with n rows
PageEnvelopes(p) ==
    [vs : VsTexts, combTablePnl : {NoUpdate},
     groupingTable : {NoUpdate, EmptyText, Frag("group", <<>>, BlankBody, NoInt, NoInt)}
                     \cup {Frag("group", <<>>, Body(p, n), NoInt, NoInt) :
                              n \in 1..MaxPageSize}]

----------------------------------------------------------------------------
(* The state machine *)

NoResult == [kind |-> "none"]
NoDocument == [status |-> "none"]

\* what bootstrap() looks for in a document
Shape(doc) ==
    [status |-> doc.status, input |-> doc.vs # "absent",
     form |-> doc.form \notin {"absent", None, ""}]
NoChoice == [y |-> NoOption, x |-> NoOption, year |-> NoOption]

Init ==
    /\ pc = "start"
    /\ view_state = None
    /\ form_id = None
    /\ current = InitialCurrent
    /\ options = [y |-> <<>>, x |-> <<>>, year |-> <<>>]
    /\ auto = FALSE
    /\ chosen = NoChoice
    /\ call = NoCall
    /\ page = NoPage
    /\ files = [k \in ArtifactKinds |-> NoFile]
    /\ log = <<>>
    /\ gets = 0
    /\ posted = FALSE
    /\ calls = <<>>
    /\ issued = None
    /\ answers = <<>>
    /\ result = NoResult
    /\ document = NoDocument
    /\ rendered = <<>>

\* a bootstrap() that does not look for the form id
BootstrapOk_NoFormCheck(doc) == doc.status = "ok" /\ doc.vs # "absent"

\* bootstrap(): the GET is answered and raise_for_status passes, the document
\* has a ViewState input and its first form has an id
BootstrapOk(doc) ==
    doc.status = "ok" /\ doc.vs # "absent" /\ doc.form \notin {"absent", None, ""}

\* the exception bootstrap() raises on a document that is not BootstrapOk
BootstrapError(doc) ==
    IF doc.status # "ok" THEN "HTTPError"
    ELSE IF doc.vs = "absent" THEN "ViewState input not found"
    ELSE "Main form id not found"

\* lines 204-211
DiscoveredOptions(doc) ==
    [y |-> get_dropdown_options(doc.yaxis),
     x |-> get_dropdown_options(doc.xaxis),
     year |-> FilterYear(get_dropdown_options(doc.year))]

\* lines 354-358: the three options the command line selects, if all match
Matched(args, opts) ==
    [y |-> match_option(args.y_label, opts.y),
     x |-> match_option(args.x_label, opts.x),
     year |-> match_option(args.year_label, opts.year)]

AllGiven(args) ==
    args.y_label # <<>> /\ args.x_label # <<>> /\ args.year_label # <<>>

AllMatched(m) == m.y # NoOption /\ m.x # NoOption /\ m.year # NoOption

\* the three selections of run(): source_base, input_id and render of the
\* change_select of each, and where its option comes from
SourceOf(kind) ==
    CASE kind = "yaxis" -> "yaxisVar" [] kind = "xaxis" -> "xaxisVar"
      [] kind = "year" -> "selectedYear"
InputOf(kind) ==
    CASE kind = "yaxis" -> "yaxisVar_input" [] kind = "xaxis" -> "xaxisVar_input"
      [] kind = "year" -> "selectedYear_input"
RenderOf(kind) ==
    CASE kind = "yaxis" -> "xaxisVar" [] kind = "xaxis" -> "multipleYear"
      [] kind = "year" -> "selectedYear"
FieldOf(kind) ==
    CASE kind = "yaxis" -> "y" [] kind = "xaxis" -> "x" [] kind = "year" -> "year"
OptionsOf(kind, opts) == opts[FieldOf(kind)]
StageOfPc(p) ==
    CASE p = "chooseY" -> "yaxis" [] p = "chooseX" -> "xaxis"
      [] p = "chooseYear" -> "year"
ChoosePc(kind) ==
    CASE kind = "yaxis" -> "chooseY" [] kind = "xaxis" -> "chooseX"
      [] kind = "year" -> "chooseYear"
SelPc(kind) ==
    CASE kind = "yaxis" -> "selY" [] kind = "xaxis" -> "selX"
      [] kind = "year" -> "selYear"

\* a run() that goes from the Y-axis selection straight to the year
NextStage_SkipX(kind) == "year"

\* the selection run() makes after the one that returned (lines 363-365 and
\* 373-378): X-axis after Y-axis, year after X-axis
NextStage(kind) == IF kind = "yaxis" THEN "xaxis" ELSE "year"

\* change_select: current[input_id] = value, then the call with the fields
change_select(kind, value, cur, fid, vs) ==
    MkCall(kind, fid, vs, SourceOf(kind), SourceOf(kind), RenderOf(kind),
           StateFields([cur EXCEPT ![InputOf(kind)] = value]), 0, Retries)

\* a caller that drops the returned token
AssignedToken_Kept(returned, previous) == previous

\* self.view_state, xml = send_ajax_request(...): the caller keeps the token
AssignedToken(returned, previous) == returned

\* run() up to the failure of bootstrap: logged, run returns
BootstrapFails ==
    /\ pc = "start"
    /\ \E doc \in Docs :
        /\ ~BootstrapOk(doc)
        /\ document' = Shape(doc)
        /\ rendered' = rendered
        \* self.view_state is assigned before the form is looked for
        /\ view_state' = IF doc.status = "ok" /\ doc.vs # "absent"
                         THEN doc.vs ELSE view_state
        /\ log' = Append(log, Entry("ERROR", "Initial bootstrap failed",
                                    BootstrapError(doc), 0))
    /\ gets' = gets + 1
    /\ pc' = "done"
    /\ UNCHANGED <<form_id, current, options, auto, chosen, call, page, files,
                   posted, calls, issued, answers, result>>

\* run() when one of the three option lists is empty: logged, run returns
NoOptions ==
    /\ pc = "start"
    /\ \E doc \in Docs :
        LET opts == DiscoveredOptions(doc)
        IN  /\ BootstrapOk(doc)
            /\ document' = Shape(doc)
            /\ rendered' = rendered
            /\ opts.y = <<>> \/ opts.x = <<>> \/ opts.year = <<>>
            /\ view_state' = doc.vs
            /\ issued' = doc.vs
            /\ form_id' = doc.form
            /\ options' = opts
            /\ log' = Append(log,
                   Entry("ERROR", "No options found. Aborting",
                         IF opts.y = <<>> THEN "yaxisVar_input"
                         ELSE IF opts.x = <<>> THEN "xaxisVar_input"
                         ELSE "selectedYear_input", 0))
    /\ gets' = gets + 1
    /\ pc' = "done"
    /\ UNCHANGED <<current, auto, chosen, call, page, files, posted, calls,
                   answers, result>>

\* run() on the command-line path, up to the first POST of the Y-axis selection
StartAuto ==
    /\ pc = "start"
    /\ \E doc \in Docs, args \in Args :
        LET opts == DiscoveredOptions(doc)
            m == Matched(args, opts)
            cur == [InitialCurrent EXCEPT !["yaxisVar_input"] = m.y.val]
        IN  /\ BootstrapOk(doc)
            /\ document' = Shape(doc)
            /\ rendered' = rendered
            /\ opts.y # <<>> /\ opts.x # <<>> /\ opts.year # <<>>
            /\ AllGiven(args) /\ AllMatched(m)
            /\ view_state' = doc.vs
            /\ issued' = doc.vs
            /\ form_id' = doc.form
            /\ options' = opts
            /\ chosen' = m
            /\ current' = cur
            /\ call' = change_select("yaxis", m.y.val, InitialCurrent,
                                     doc.form, doc.vs)
    /\ auto' = TRUE
    /\ gets' = gets + 1
    /\ pc' = "selY"
    /\ UNCHANGED <<page, files, log, posted, calls, answers, result>>

\* run() on the interactive path, up to the first prompt
StartInteractive ==
    /\ pc = "start"
    /\ \E doc \in Docs, args \in Args :
        LET opts == DiscoveredOptions(doc)
        IN  /\ BootstrapOk(doc)
            /\ document' = Shape(doc)
            /\ rendered' = rendered
            /\ opts.y # <<>> /\ opts.x # <<>> /\ opts.year # <<>>
            /\ ~(AllGiven(args) /\ AllMatched(Matched(args, opts)))
            /\ view_state' = doc.vs
            /\ issued' = doc.vs
            /\ form_id' = doc.form
            /\ options' = opts
    /\ gets' = gets + 1
    /\ pc' = "chooseY"
    /\ UNCHANGED <<current, auto, chosen, call, page, files, log, posted,
                   calls, answers, result>>

\* how a finished call is remembered; nrows: the rows fetch_page returned
Outcome(c, res, nrows) ==
    [kind |-> c.kind, page_index |-> c.page_index, result |-> res,
     nrows |-> nrows]

\* choose(prompt, options) returns and change_select sends its first POST
ChooseOption ==
    /\ pc \in {"chooseY", "chooseX", "chooseYear"}
    /\ \E i \in 1..Len(OptionsOf(StageOfPc(pc), options)) :
        LET kind == StageOfPc(pc)
            opt == OptionsOf(kind, options)[i]
        IN  /\ chosen' = [chosen EXCEPT ![FieldOf(kind)] = opt]
            /\ current' = [current EXCEPT ![InputOf(kind)] = opt.val]
            /\ call' = change_select(kind, opt.val, current, form_id, view_state)
            /\ pc' = SelPc(kind)
    /\ UNCHANGED <<view_state, form_id, options, auto, page, files, log, gets,
                   posted, calls, issued, answers, result, document,
                   rendered>>

\* an attempt that is not the last one fails (non-200, timeout, exception):
\* it is logged and the loop of send_ajax_request goes on
PostFails ==
    /\ MayAttempt(call) /\ ~Exhausted(call)
    /\ call' = [call EXCEPT !.attempt = @ + 1]
    /\ posted' = TRUE
    /\ UNCHANGED <<pc, view_state, form_id, current, options, auto, chosen,
                   page, files, log, gets, calls, issued, answers, result,
                   document, rendered>>

\* the last attempt of a change_select fails: send_ajax_request raises, nothing
\* in run() catches it
SelectRaises ==
    /\ MayAttempt(call) /\ Exhausted(call)
    /\ call.kind \in {"yaxis", "xaxis", "year"}
    /\ posted' = TRUE
    /\ calls' = Append(calls, Outcome(call, "raised", 0))
    /\ call' = NoCall
    /\ pc' = "crashed"
    /\ UNCHANGED <<view_state, form_id, current, options, auto, chosen, page,
                   files, log, gets, issued, answers, result, document,
                   rendered>>

\* the last attempt of the refresh fails: run() catches and logs it
RefreshRaises ==
    /\ MayAttempt(call) /\ Exhausted(call)
    /\ call.kind = "refresh"
    /\ log' = log \o <<Entry("ERROR", "Refresh failed", "", 0), Completed>>
    /\ posted' = TRUE
    /\ calls' = Append(calls, Outcome(call, "raised", 0))
    /\ call' = NoCall
    /\ pc' = "done"
    /\ UNCHANGED <<view_state, form_id, current, options, auto, chosen, page,
                   files, gets, issued, answers, result, document,
                   rendered>>

\* the last attempt of a fetch_page fails: the loop catches it, logs the page
\* and breaks; the rows are saved
PageRaises ==
    /\ MayAttempt(call) /\ Exhausted(call)
    /\ call.kind = "page"
    /\ log' = log
              \o <<Entry("ERROR",
                         IF page.loop = "exact" THEN "Pagination fetch failed"
                         ELSE "Fallback pagination failed",
                         "page", call.page_index + 1)>>
              \o SavedLog(page.headers, page.rows) \o <<Completed>>
    /\ files' = SavedFiles(page.fragment, page.headers, page.rows,
                           BaseName(chosen.y.lab, chosen.x.lab), chosen.year.lab)
    /\ posted' = TRUE
    /\ calls' = Append(calls, Outcome(call, "raised", 0))
    /\ call' = NoCall
    /\ pc' = "done"
    /\ UNCHANGED <<view_state, form_id, current, options, auto, chosen, page,
                   gets, issued, answers, result, document, rendered>>

\* an attempt is answered with status 200: the call returns to its caller
Returned(xml, nrows) ==
    /\ calls' = Append(calls, Outcome(call, "returned", nrows))
    /\ posted' = TRUE
    /\ issued' = NewViewState(xml, call.data.view_state)
    /\ view_state' = AssignedToken(NewViewState(xml, call.data.view_state),
                                   view_state)

\* the call fetch_page(page_index, page_size, current) makes
PageCall(page_index, page_size, cur, fid, vs) ==
    MkCall("page", fid, vs, "groupingTable", "groupingTable", "groupingTable",
           PageFields(cur, page_index, page_size), page_index, Retries)

\* command-line path: the Y-axis (X-axis) selection returns and the next
\* change_select sends its first POST
SelectReturnsAuto ==
    /\ MayAttempt(call) /\ call.kind \in {"yaxis", "xaxis"}
    /\ auto
    /\ \E xml \in SelectEnvelopes(call.kind) :
        LET kind == NextStage(call.kind)
            value == chosen[FieldOf(kind)].val
            vs == AssignedToken(NewViewState(xml, call.data.view_state),
                                view_state)
        IN  /\ Returned(xml, 0)
            /\ current' = [current EXCEPT ![InputOf(kind)] = value]
            /\ call' = change_select(kind, value, current, form_id, vs)
            /\ pc' = SelPc(kind)
            /\ rendered' = xml.options
    /\ UNCHANGED <<form_id, options, auto, chosen, page, files, log, gets,
                   answers, result, document>>

\* interactive path: the Y-axis (X-axis) selection returns, the next prompt
SelectReturnsInteractive ==
    /\ MayAttempt(call) /\ call.kind \in {"yaxis", "xaxis"}
    /\ ~auto
    /\ \E xml \in SelectEnvelopes(call.kind) :
        /\ Returned(xml, 0)
        /\ rendered' = xml.options
    /\ call' = NoCall
    /\ pc' = ChoosePc(NextStage(call.kind))
    /\ UNCHANGED <<form_id, current, options, auto, chosen, page, files, log,
                   gets, answers, result, document>>

\* lines 255-269: the call refresh_and_save makes
RefreshCall(cur, fid, vs) ==
    MkCall("refresh", fid, vs, "j_idt66", "@all",
           "combTablePnl groupingTable msg", RefreshFields(cur), 0, Retries)

\* the year selection returns and refresh_and_save sends its first POST
YearReturns ==
    /\ MayAttempt(call) /\ call.kind = "year"
    /\ \E xml \in SelectEnvelopes(call.kind) :
        /\ Returned(xml, 0)
        /\ rendered' = xml.options
        /\ call' = RefreshCall(current, form_id,
                               AssignedToken(NewViewState(xml, call.data.view_state),
                                             view_state))
    /\ pc' = "refresh"
    /\ UNCHANGED <<form_id, current, options, auto, chosen, page, files, log,
                   gets, answers, result, document>>

\* a refresh that looks at the groupingTable update first
RefreshFragment_GroupFirst(xml) ==
    IF Truthy(extract_update_fragment(xml, "groupingTable"))
    THEN extract_update_fragment(xml, "groupingTable")
    ELSE extract_update_fragment(xml, "combTablePnl")

\* line 270: combTablePnl, or groupingTable when that one is absent or empty
RefreshFragment(xml) ==
    IF Truthy(extract_update_fragment(xml, "combTablePnl"))
    THEN extract_update_fragment(xml, "combTablePnl")
    ELSE extract_update_fragment(xml, "groupingTable")

\* lines 272-275: the locals of refresh_and_save before the loops
FirstPage(fragment) ==
    LET parsed == parse_datatable_fragment(fragment)
        meta == extract_table_pagination_meta(fragment)
        loop == LoopOf(meta[1], meta[2], Len(parsed.rows))
    IN  [loop |-> loop, fragment |-> fragment, headers |-> parsed.headers,
         rows |-> parsed.rows,
         total_pages |-> IF loop = "exact" THEN Ceil(meta[1], meta[2]) ELSE 0,
         page_size |-> meta[2], page_index |-> 1, fetched_pages |-> 1,
         first_rows |-> Len(parsed.rows)]

\* lines 316-317: the refresh returned xml and it holds no table fragment
RefreshNone(xml) ==
    /\ ~Truthy(RefreshFragment(xml))
    /\ Returned(xml, 0)
    /\ log' = log \o <<Entry("ERROR", "No table fragment", "", 0), Completed>>
    /\ call' = NoCall
    /\ pc' = "done"
    /\ UNCHANGED <<form_id, current, options, auto, chosen, page, files, gets,
                   answers, result, document, rendered>>

\* lines 271-275 and 308-315: the refresh returned xml with a fragment and
\* neither loop has a page to fetch
RefreshSave(xml) ==
    LET pg == FirstPage(RefreshFragment(xml))
    IN  /\ Truthy(RefreshFragment(xml))
        /\ ~(1 < RangeEnd(pg.loop, pg.total_pages))
        /\ Returned(xml, 0)
        /\ page' = pg
        /\ files' = SavedFiles(pg.fragment, pg.headers, pg.rows,
                               BaseName(chosen.y.lab, chosen.x.lab),
                               chosen.year.lab)
        /\ log' = log \o SavedLog(pg.headers, pg.rows) \o <<Completed>>
        /\ call' = NoCall
        /\ pc' = "done"
        /\ UNCHANGED <<form_id, current, options, auto, chosen, gets, answers,
                       result, document, rendered>>

\* lines 271-279 and 289-293: the refresh returned xml with a fragment and a
\* loop starts
RefreshPaging(xml) ==
    LET pg == FirstPage(RefreshFragment(xml))
    IN  /\ Truthy(RefreshFragment(xml))
        /\ 1 < RangeEnd(pg.loop, pg.total_pages)
        /\ Returned(xml, 0)
        /\ page' = pg
        /\ call' = PageCall(1, pg.page_size, current, form_id,
                            AssignedToken(NewViewState(xml, call.data.view_state),
                                          view_state))
        /\ pc' = "paging"
        /\ UNCHANGED <<form_id, current, options, auto, chosen, files, log, gets,
                       answers, result, document, rendered>>

\* the refresh returns without a table fragment: logged, nothing is written
RefreshNoFragment ==
    /\ MayAttempt(call) /\ call.kind = "refresh"
    /\ \E xml \in RefreshEnvelopes : RefreshNone(xml)

\* the refresh returns a fragment and neither loop has a page to fetch: saved
RefreshSaves ==
    /\ MayAttempt(call) /\ call.kind = "refresh"
    /\ \E xml \in RefreshEnvelopes : RefreshSave(xml)

\* the refresh returns a fragment and a loop starts: fetch_page(1, page_size)
RefreshStartsPaging ==
    /\ MayAttempt(call) /\ call.kind = "refresh"
    /\ \E xml \in RefreshEnvelopes : RefreshPaging(xml)

\* in a whole run the server keeps a probing loop going only through MaxProbe
\* pages; the server of the probing loop on its own never stops sending
WithinProbe(pg, page_rows) ==
    pc = "paging" /\ pg.loop = "probe" /\ Len(page_rows) >= pg.page_size
        => pg.page_index < MaxProbe

\* the loop body after fetch_page returned the rows of xml, when the loop goes
\* on: rows.extend(page_rows), then fetch_page(page_index + 1, ...)
PageNext(xml) ==
    LET page_rows == fetch_page_rows(xml)
    IN  /\ LoopContinues(page, page_rows)
        /\ WithinProbe(page, page_rows)
        /\ Returned(xml, Len(page_rows))
        /\ page' = [page EXCEPT !.rows = RowsAfter(@, page_rows),
                                !.fetched_pages = @ + 1,
                                !.page_index = @ + 1]
        /\ call' = PageCall(page.page_index + 1, page.page_size, current,
                            form_id,
                            AssignedToken(NewViewState(xml, call.data.view_state),
                                          view_state))
        /\ UNCHANGED <<pc, form_id, current, options, auto, chosen, files, log,
                       gets, answers, result, document, rendered>>

\* the loop body after fetch_page returned the rows of xml, when the loop
\* ends (no rows, a short page, or the last index), and the saves after it
PageLast(xml) ==
    LET page_rows == fetch_page_rows(xml)
        pg == IF page_rows = <<>> THEN page
              ELSE [page EXCEPT !.rows = RowsAfter(@, page_rows),
                                !.fetched_pages = @ + 1]
    IN  /\ ~LoopContinues(page, page_rows)
        /\ Returned(xml, Len(page_rows))
        /\ page' = pg
        /\ files' = SavedFiles(pg.fragment, pg.headers, pg.rows,
                               BaseName(chosen.y.lab, chosen.x.lab),
                               chosen.year.lab)
        /\ log' = log \o SavedLog(pg.headers, pg.rows) \o <<Completed>>
        /\ call' = NoCall
        /\ pc' = "done"
        /\ UNCHANGED <<form_id, current, options, auto, chosen, gets, answers,
                       result, document, rendered>>

\* a page returns rows and the loop goes on: fetch_page(page_index + 1, ...)
PageReturnsNext ==
    /\ MayAttempt(call) /\ call.kind = "page"
    /\ \E xml \in PageEnvelopes(call.page_index) : PageNext(xml)

\* a page returns and the loop ends (no rows, a short page, or the last index):
\* the rows are saved
PageReturnsLast ==
    /\ MayAttempt(call) /\ call.kind = "page"
    /\ \E xml \in PageEnvelopes(call.page_index) : PageLast(xml)

Next ==
    \/ BootstrapFails
    \/ NoOptions
    \/ StartAuto
    \/ StartInteractive
    \/ ChooseOption
    \/ PostFails
    \/ SelectRaises
    \/ RefreshRaises
    \/ PageRaises
    \/ SelectReturnsAuto
    \/ SelectReturnsInteractive
    \/ YearReturns
    \/ RefreshNoFragment
    \/ RefreshSaves
    \/ RefreshStartsPaging
    \/ PageReturnsNext
    \/ PageReturnsLast

Spec == Init /\ [][Next]_vars

----------------------------------------------------------------------------
(* send_ajax_request on its own: called with any token and any retry bound *)

\* largest retries argument the harness calls send_ajax_request with
MaxRetries == 4

GivenTokens == {None, "", "t0", "t1"}

HarnessEnvelopes ==
    [vs : {None, "", "t1", "t2"}, combTablePnl : {NoUpdate},
     groupingTable : {NoUpdate}]

HarnessCalls ==
    {MkCall("harness", "f1", vs, source, source, source,
            StateFields(InitialCurrent), 0, n) :
        vs \in GivenTokens, source \in {"yaxisVar", "groupingTable"},
        n \in 0..MaxRetries}

InitTransport ==
    /\ pc = "transport"
    /\ view_state = None
    /\ form_id = "f1"
    /\ current = InitialCurrent
    /\ options = [y |-> <<>>, x |-> <<>>, year |-> <<>>]
    /\ auto = FALSE
    /\ chosen = NoChoice
    /\ call \in HarnessCalls
    /\ page = NoPage
    /\ files = [k \in ArtifactKinds |-> NoFile]
    /\ log = <<>>
    /\ gets = 0
    /\ posted = FALSE
    /\ calls = <<>>
    /\ issued = None
    /\ answers = <<>>
    /\ result = NoResult
    /\ document = NoDocument
    /\ rendered = <<>>

\* a send_ajax_request that writes the token it works with into the session
HarnessFrame_StoresToken ==
    /\ view_state' = call.data.view_state
    /\ UNCHANGED <<pc, form_id, current, options, auto, chosen, page, files,
                   log, gets, calls, issued, document, rendered>>

\* send_ajax_request works on its arguments and locals only
HarnessFrame ==
    UNCHANGED <<pc, view_state, form_id, current, options, auto, chosen, page,
                files, log, gets, calls, issued, document, rendered>>

\* an attempt fails and the loop goes on
AttemptFails ==
    /\ pc = "transport"
    /\ MayAttempt(call) /\ ~Exhausted(call)
    /\ call' = [call EXCEPT !.attempt = @ + 1]
    /\ answers' = Append(answers, "failed")
    /\ posted' = TRUE
    /\ UNCHANGED result
    /\ HarnessFrame

\* the last attempt fails: line 95 raises
LastAttemptFails ==
    /\ pc = "transport"
    /\ MayAttempt(call) /\ Exhausted(call)
    /\ call' = [call EXCEPT !.kind = "none", !.attempt = @ + 1]
    /\ answers' = Append(answers, "failed")
    /\ posted' = TRUE
    /\ result' = [kind |-> "raised"]
    /\ HarnessFrame

\* retries < 1: the loop body never runs, line 95 raises
NoAttempt ==
    /\ pc = "transport"
    /\ call.kind # "none" /\ ~MayAttempt(call)
    /\ call' = [call EXCEPT !.kind = "none"]
    /\ result' = [kind |-> "raised"]
    /\ UNCHANGED <<answers, posted>>
    /\ HarnessFrame

\* an attempt is answered with status 200: line 90 returns
AttemptReturns ==
    /\ pc = "transport"
    /\ MayAttempt(call)
    /\ \E xml \in HarnessEnvelopes :
        result' = [kind |-> "returned", xml_vs |-> xml.vs,
                   token |-> NewViewState(xml, call.data.view_state)]
    /\ call' = [call EXCEPT !.kind = "none", !.attempt = @ + 1]
    /\ answers' = Append(answers, "200")
    /\ posted' = TRUE
    /\ HarnessFrame

NextTransport == AttemptFails \/ LastAttemptFails \/ NoAttempt \/ AttemptReturns

SpecTransport == InitTransport /\ [][NextTransport]_vars

-----------------------------------------------------------------------------
(* refresh_and_save on its own: the closure entered with a `current` in    *)
(* which any of the three selected fields may still be None, as it is      *)
(* before the change_select of that field has run                          *)

SelectedKeys == {"yaxisVar_input", "xaxisVar_input", "selectedYear_input"}

RefreshCurrents ==
    {[InitialCurrent EXCEPT !["yaxisVar_input"] = y, !["xaxisVar_input"] = x,
                            !["selectedYear_input"] = yr] :
        y \in {None, yA.val}, x \in {None, xA.val}, yr \in {None, yr24.val}}

InitRefresh ==
    /\ pc = "enter"
    /\ view_state = "t0"
    /\ form_id = "f1"
    /\ current \in RefreshCurrents
    /\ options = [y |-> <<yA>>, x |-> <<xA>>, year |-> <<yr24>>]
    /\ auto = TRUE
    /\ chosen = [y |-> yA, x |-> xA, year |-> yr24]
    /\ call = NoCall
    /\ page = NoPage
    /\ files = [k \in ArtifactKinds |-> NoFile]
    /\ log = <<>>
    /\ gets = 1
    /\ posted = FALSE
    /\ calls = <<>>
    /\ issued = "t0"
    /\ answers = <<>>
    /\ result = NoResult
    /\ document = [status |-> "ok", input |-> TRUE, form |-> TRUE]
    /\ rendered = <<>>

\* lines 255-269: no check of `current` comes before the call
EnterRefresh ==
    /\ pc = "enter"
    /\ call' = RefreshCall(current, form_id, view_state)
    /\ pc' = "refresh"
    /\ UNCHANGED <<view_state, form_id, current, options, auto, chosen, page,
                   files, log, gets, posted, calls, issued, answers, result,
                   document, rendered>>

NextRefresh ==
    \/ EnterRefresh
    \/ PostFails
    \/ RefreshRaises
    \/ RefreshNoFragment
    \/ RefreshSaves
    \/ RefreshStartsPaging
    \/ PageRaises
    \/ PageReturnsNext
    \/ PageReturnsLast

SpecRefresh == InitRefresh /\ [][NextRefresh]_vars

-----------------------------------------------------------------------------
(* The end of the probing loop on its own: refresh_and_save after a refresh *)
(* whose fragment gives a page size and no rowCount, at the point where     *)
(* all pages but the last ProbeTail of the range came back full, with a     *)
(* server that answers every further page in every way, full pages without  *)
(* end among them                                                           *)

\* number of page indices left in range(1, 500) when the loop is taken up
ProbeTail == 16

ProbeFragment == Frag("comb", HeadRow, Body(0, MaxPageSize), NoInt, MaxPageSize)

\* the rows of the first page and of the full pages 1 .. k
FullPages(k) ==
    [j \in 1..((k + 1) * MaxPageSize) |->
        Row((j - 1) \div MaxPageSize, ((j - 1) % MaxPageSize) + 1)]

\* the index of the page the loop is about to fetch
ProbeStart == SafetyCap - ProbeTail

InitProbe ==
    /\ pc = "probing"
    /\ view_state = "t0"
    /\ form_id = "f1"
    /\ current \in {c \in RefreshCurrents : \A k \in SelectedKeys : c[k] # None}
    /\ options = [y |-> <<yA>>, x |-> <<xA>>, year |-> <<yr24>>]
    /\ auto = TRUE
    /\ chosen = [y |-> yA, x |-> xA, year |-> yr24]
    /\ page = [FirstPage(ProbeFragment) EXCEPT
                   !.rows = FullPages(ProbeStart - 1),
                   !.page_index = ProbeStart,
                   !.fetched_pages = ProbeStart]
    /\ call = PageCall(ProbeStart, page.page_size, current, form_id, view_state)
    /\ files = [k \in ArtifactKinds |-> NoFile]
    /\ log = <<>>
    /\ gets = 1
    /\ posted = TRUE
    /\ calls = [i \in 1..(ProbeStart - 1) |->
                   Outcome([kind |-> "page", page_index |-> i], "returned",
                           MaxPageSize)]
    /\ issued = "t0"
    /\ answers = <<>>
    /\ result = NoResult
    /\ document = [status |-> "ok", input |-> TRUE, form |-> TRUE]
    /\ rendered = <<>>

NextProbe == PostFails \/ PageRaises \/ PageReturnsNext \/ PageReturnsLast

SpecProbe == InitProbe /\ [][NextProbe]_vars

-----------------------------------------------------------------------------
(* The parsers on their own: parse_datatable_fragment, parse_table,        *)
(* build_html_table followed by parse_table, and fetch_page, applied to    *)
(* tables whose rows are ragged, whose headers are missing or blank, and   *)
(* whose cells hold commas and runs of whitespace                          *)

\* widest data row of the tables
MaxWidth == 15
\* largest page index fetch_page is called with here
MaxIndex == 3

One == <<"1">>
Seven == <<"7">>
Thousands == <<"1", "2", ",", "3", "4", "5">>
Label == <<"A", "c", ",", " ", "I">>
Spaced == <<" ", "x", " ", NBSP, "y">>
Blank == <<" ">>

\* a row of n cells: a serial number, a maker, n - 3 months and a total
MakerRow(n) == <<One, Label>> \o [i \in 1..(n - 3) |-> Seven] \o <<Thousands>>

TableBodies ==
    {<<MakerRow(n)>> : n \in 5..MaxWidth}
    \cup {<<>>,
          <<<<Blank, Blank>>>>,
          <<<<One, Label, Thousands>>, <<Spaced>>>>,
          <<<<One>>, <<Thousands, Spaced, Label>>>>,
          <<<<One, Label, Seven, Thousands>>>>}

TableHeads ==
    {<<>>, <<<<Blank, <<>>>>>>, HeadRow, <<<<Spaced>>, <<One, Label, Thousands>>>>}

TableMarkups ==
    {Markup(Frag("group", head, body, NoInt, NoInt), flags[1], flags[2], flags[3]) :
        head \in TableHeads, body \in TableBodies,
        flags \in {<<TRUE, TRUE, TRUE>>, <<TRUE, TRUE, FALSE>>,
                   <<TRUE, FALSE, FALSE>>, <<FALSE, FALSE, FALSE>>}}

InitExtract ==
    /\ pc = "extract"
    /\ view_state = "t0"
    /\ form_id = "f1"
    /\ current = InitialCurrent
    /\ options = [y |-> <<>>, x |-> <<>>, year |-> <<>>]
    /\ auto = FALSE
    /\ chosen = NoChoice
    /\ call = NoCall
    /\ page = NoPage
    /\ files = [k \in ArtifactKinds |-> NoFile]
    /\ log = <<>>
    /\ gets = 0
    /\ posted = FALSE
    /\ calls = <<>>
    /\ issued = "t0"
    /\ answers = <<>>
    /\ result \in {[kind |-> "input", html |-> h] : h \in TableMarkups}
    /\ document = NoDocument
    /\ rendered = <<>>

ExtractFrame ==
    UNCHANGED <<view_state, form_id, options, auto, chosen, page, files, log,
                gets, posted, calls, issued, answers, document,
                   rendered>>

\* parse_datatable_fragment(fragment)
ParseDatatable ==
    /\ pc = "extract"
    /\ result' = [kind |-> "parse_datatable_fragment", html |-> result.html,
                  out |-> parse_datatable_fragment(result.html.table)]
    /\ pc' = "parsed"
    /\ UNCHANGED <<current, call>>
    /\ ExtractFrame

\* parse_table(html)
ParseTable ==
    /\ pc = "extract"
    /\ result' = [kind |-> "parse_table", html |-> result.html,
                  out |-> parse_table(result.html)]
    /\ pc' = "parsed"
    /\ UNCHANGED <<current, call>>
    /\ ExtractFrame

\* lines 310-312 and then extract_all: the headers and rows the scraper holds
\* are written with build_html_table and read back with parse_table
BuildAndParse ==
    /\ pc = "parsed"
    /\ result.kind = "parse_datatable_fragment"
    /\ result.out.headers # <<>> /\ result.out.rows # <<>>
    /\ result' = [kind |-> "round_trip", html |-> result.html,
                  out |-> result.out,
                  back |-> parse_table(CombinedMarkup(
                      build_html_table(result.out.headers, result.out.rows)))]
    /\ pc' = "read_back"
    /\ UNCHANGED <<current, call>>
    /\ ExtractFrame

\* fetch_page(page_index, page_size, current_state) and the envelope its
\* exchange returns
FetchPage ==
    /\ pc = "extract"
    /\ \E page_index \in 1..MaxIndex, page_size \in 1..MaxPageSize,
          cur \in {InitialCurrent,
                   [InitialCurrent EXCEPT !["yaxisVar_input"] = yA.val,
                                          !["xaxisVar_input"] = xA.val,
                                          !["selectedYear_input"] = yr24.val]},
          group \in {NoUpdate, EmptyText, result.html.table} :
        /\ current' = cur
        /\ call' = PageCall(page_index, page_size, cur, form_id, view_state)
        /\ result' = [kind |-> "fetch_page", html |-> result.html,
                      group |-> group, page_size |-> page_size,
                      rows |-> fetch_page_rows(
                          [vs |-> None, combTablePnl |-> NoUpdate,
                           groupingTable |-> group])]
    /\ pc' = "fetched"
    /\ ExtractFrame

NextExtract == ParseDatatable \/ ParseTable \/ BuildAndParse \/ FetchPage

SpecExtract == InitExtract /\ [][NextExtract]_vars

-----------------------------------------------------------------------------
(* The choice of the path on its own: run() from the matching of the       *)
(* command-line labels (line 353) to the year selection, over documents    *)
(* whose option labels contain one another and labels that match exactly,  *)
(* in part, or not at all                                                   *)

yN == [val |-> "6", lab |-> <<"V", " ", "n", "o">>]

MatchDocs ==
    [status : {"ok"}, vs : {"t0"}, form : {"f1"},
     yaxis : {<<blankOpt, yA, yB>>, <<yN, yB>>},
     xaxis : {<<xA>>},
     year : {<<yrSelect, yr24>>, <<yrSelect, yr25, yr24>>}]

MatchArgs ==
    [y_label : {<<>>, <<" ", "n", "O">>, <<"c">>, <<"z">>},
     x_label : {<<>>, <<"y">>},
     year_label : {<<"2">>, <<"2", "4">>, <<"9">>}]

InitMatch ==
    /\ pc = "match"
    /\ view_state = "t0"
    /\ form_id = "f1"
    /\ current = InitialCurrent
    /\ options \in {DiscoveredOptions(doc) : doc \in MatchDocs}
    /\ auto = FALSE
    /\ chosen = NoChoice
    /\ call = NoCall
    /\ page = NoPage
    /\ files = [k \in ArtifactKinds |-> NoFile]
    /\ log = <<>>
    /\ gets = 1
    /\ posted = FALSE
    /\ calls = <<>>
    /\ issued = "t0"
    /\ answers = <<>>
    /\ result \in {[kind |-> "args", args |-> a, m |-> NoChoice] : a \in MatchArgs}
    /\ document = [status |-> "ok", input |-> TRUE, form |-> TRUE]
    /\ rendered = <<>>

\* lines 353-372: the labels are matched; with three matches the Y-axis
\* selection is sent at once, otherwise the first prompt comes
MatchLabels ==
    /\ pc = "match"
    /\ LET args == result.args
           m == Matched(args, options)
       IN  /\ result' = [kind |-> "matched", args |-> args, m |-> m]
           /\ IF AllGiven(args) /\ AllMatched(m)
              THEN /\ auto' = TRUE
                   /\ chosen' = m
                   /\ current' = [current EXCEPT !["yaxisVar_input"] = m.y.val]
                   /\ call' = change_select("yaxis", m.y.val, current,
                                            form_id, view_state)
                   /\ pc' = "selY"
              ELSE /\ pc' = "chooseY"
                   /\ UNCHANGED <<auto, chosen, current, call>>
    /\ UNCHANGED <<view_state, form_id, options, page, files, log, gets,
                   posted, calls, issued, answers, document, rendered>>

NextMatch ==
    \/ MatchLabels
    \/ ChooseOption
    \/ SelectReturnsAuto
    \/ SelectReturnsInteractive

SpecMatch == InitMatch /\ [][NextMatch]_vars

-----------------------------------------------------------------------------
(* The pagination loops with an operator who may ask for the scrape to be  *)
(* cancelled while a page is being fetched; the loops of refresh_and_save   *)
(* (lines 276-307) read no such request                                     *)

NotCancelled == [kind |-> "operator", cancelled |-> FALSE, at |-> 0]

\* first fragments that start the exact-count loop and the probing loop
CancelFragments ==
    {Frag("comb", HeadRow, Body(0, 1), MaxRowCount, 1),
     Frag("comb", HeadRow, Body(0, 1), NoInt, 1),
     Frag("comb", HeadRow, Body(0, MaxPageSize), MaxRowCount, MaxPageSize)}

InitCancel ==
    /\ pc = "paging"
    /\ view_state = "t0"
    /\ form_id = "f1"
    /\ current = [InitialCurrent EXCEPT !["yaxisVar_input"] = yA.val,
                                        !["xaxisVar_input"] = xA.val,
                                        !["selectedYear_input"] = yr24.val]
    /\ options = [y |-> <<yA>>, x |-> <<xA>>, year |-> <<yr24>>]
    /\ auto = TRUE
    /\ chosen = [y |-> yA, x |-> xA, year |-> yr24]
    /\ page \in {FirstPage(f) : f \in CancelFragments}
    /\ call = PageCall(1, page.page_size, current, form_id, view_state)
    /\ files = [k \in ArtifactKinds |-> NoFile]
    /\ log = <<>>
    /\ gets = 1
    /\ posted = TRUE
    /\ calls = <<>>
    /\ issued = "t0"
    /\ answers = <<>>
    /\ result = NotCancelled
    /\ document = [status |-> "ok", input |-> TRUE, form |-> TRUE]
    /\ rendered = <<>>

\* the operator asks for cancellation while page `at` is being fetched
RequestCancel ==
    /\ pc = "paging" /\ call.kind = "page"
    /\ ~result.cancelled
    /\ result' = [result EXCEPT !.cancelled = TRUE, !.at = call.page_index]
    /\ UNCHANGED <<pc, view_state, form_id, current, options, auto, chosen,
                   call, page, files, log, gets, posted, calls, issued,
                   answers, document, rendered>>

NextCancel ==
    \/ RequestCancel
    \/ PostFails
    \/ PageRaises
    \/ PageReturnsNext
    \/ PageReturnsLast

SpecCancel == InitCancel /\ [][NextCancel]_vars

-----------------------------------------------------------------------------
(* The writes of refresh_and_save (lines 308-315) step by step: save_html  *)
(* and save_csv open the final path for writing, which empties the file,   *)
(* write, and close; the run may be interrupted between the steps, and the *)
(* paths may hold the files of an earlier run of the same combination      *)

\* the rows an earlier run wrote
EarlierRows == Body(9, 1)

\* what an earlier run left at the three paths
EarlierFiles ==
    SavedFiles(Frag("comb", HeadRow, EarlierRows, NoInt, NoInt), HeadRow[1],
               EarlierRows, BaseName(yA.lab, xA.lab), yr24.lab)

\* open(path, 'w'): the file exists and is empty until the write is flushed
Opened(file) == [kind |-> "partial", name |-> file.name, content |-> <<>>]

\* the files refresh_and_save is to write
ToWrite(pg) ==
    SavedFiles(pg.fragment, pg.headers, pg.rows,
               BaseName(chosen.y.lab, chosen.x.lab), chosen.year.lab)

\* the order of lines 309, 312, 313; combined and CSV only with rows
AfterFile(k, pg) ==
    CASE k = "raw" -> IF pg.headers # <<>> /\ pg.rows # <<>> THEN "combined"
                      ELSE "none"
      [] k = "combined" -> "csv"
      [] k = "csv" -> "none"

Writer(k, open) == [kind |-> "writer", next |-> k, open |-> open]

InitWrite ==
    /\ pc = "saving"
    /\ view_state = "t0"
    /\ form_id = "f1"
    /\ current = [InitialCurrent EXCEPT !["yaxisVar_input"] = yA.val,
                                        !["xaxisVar_input"] = xA.val,
                                        !["selectedYear_input"] = yr24.val]
    /\ options = [y |-> <<yA>>, x |-> <<xA>>, year |-> <<yr24>>]
    /\ auto = TRUE
    /\ chosen = [y |-> yA, x |-> xA, year |-> yr24]
    /\ page \in {FirstPage(f) : f \in FirstFrags("comb")}
    /\ call = NoCall
    /\ files \in {[k \in ArtifactKinds |-> NoFile], EarlierFiles,
                  [EarlierFiles EXCEPT !["csv"] = NoFile]}
    /\ log = <<>>
    /\ gets = 1
    /\ posted = TRUE
    /\ calls = <<>>
    /\ issued = "t0"
    /\ answers = <<>>
    /\ result = Writer("raw", FALSE)
    /\ document = [status |-> "ok", input |-> TRUE, form |-> TRUE]
    /\ rendered = <<>>

WriteFrame ==
    UNCHANGED <<view_state, form_id, current, options, auto, chosen, call,
                page, gets, posted, calls, issued, answers, document, rendered>>

\* with open(path, 'w', ...) as f
OpenFile ==
    /\ pc = "saving" /\ result.next # "none" /\ ~result.open
    /\ files' = [files EXCEPT ![result.next] = Opened(ToWrite(page)[result.next])]
    /\ result' = Writer(result.next, TRUE)
    /\ UNCHANGED <<pc, log>>
    /\ WriteFrame

\* f.write(...) and the end of the with block, then logging.info
CloseFile ==
    /\ pc = "saving" /\ result.open
    /\ files' = [files EXCEPT ![result.next] = ToWrite(page)[result.next]]
    /\ log' = Append(log, Entry("INFO", "Saved", result.next, 0))
    /\ result' = Writer(AfterFile(result.next, page), FALSE)
    /\ pc' = IF AfterFile(result.next, page) = "none" THEN "done" ELSE "saving"
    /\ WriteFrame

\* the process is interrupted (killed, or KeyboardInterrupt) between two steps
Interrupt ==
    /\ pc = "saving"
    /\ pc' = "interrupted"
    /\ UNCHANGED <<files, log, result>>
    /\ WriteFrame

NextWrite == OpenFile \/ CloseFile \/ Interrupt

SpecWrite == InitWrite /\ [][NextWrite]_vars

-----------------------------------------------------------------------------
(* Two scrapers at once: two VahanAjaxScraper objects, each in its own     *)
(* run(), their steps interleaved in any order. In this specification the  *)
(* variables that belong to a scraper object or to a run() are functions   *)
(* over the scrapers                                                        *)

Scrapers == {"a", "b"}

\* what the server gives each of its sessions: the token and the form of the
\* document, and the token it renews on a POST
BootToken(s) == IF s = "a" THEN "a0" ELSE "b0"
NextToken(s) == IF s = "a" THEN "a1" ELSE "b1"
FormOf(s) == IF s = "a" THEN "fa" ELSE "fb"

\* attributes that all scraper objects would share
Self_Shared(s) == "a"

\* lines 178-181: session, view_state and form_id are attributes of the
\* instance: self in the run() of scraper s is s
Self(s) == s

TwoOptions == [y |-> <<yA, yB>>, x |-> <<xA>>, year |-> <<yr24>>]

InitTwo ==
    /\ pc = [s \in Scrapers |-> "start"]
    /\ view_state = [s \in Scrapers |-> None]
    /\ form_id = [s \in Scrapers |-> None]
    /\ current = [s \in Scrapers |-> InitialCurrent]
    /\ options = [s \in Scrapers |-> TwoOptions]
    /\ auto = FALSE
    /\ chosen = [s \in Scrapers |-> NoChoice]
    /\ call = [s \in Scrapers |-> NoCall]
    /\ page = NoPage
    /\ files = [k \in ArtifactKinds |-> NoFile]
    /\ log = <<>>
    /\ gets = 0
    /\ posted = FALSE
    /\ calls = <<>>
    /\ issued = [s \in Scrapers |-> None]
    /\ answers = <<>>
    /\ result = NoResult
    /\ document = NoDocument
    /\ rendered = <<>>

TwoFrame ==
    UNCHANGED <<options, auto, page, files, log, posted, calls, answers,
                result, document, rendered>>

\* bootstrap() of scraper s, then the first prompt
TwoBootstrap(s) ==
    /\ pc[s] = "start"
    /\ view_state' = [view_state EXCEPT ![Self(s)] = BootToken(s)]
    /\ form_id' = [form_id EXCEPT ![Self(s)] = FormOf(s)]
    /\ issued' = [issued EXCEPT ![s] = BootToken(s)]
    /\ pc' = [pc EXCEPT ![s] = "chooseY"]
    /\ gets' = gets + 1
    /\ UNCHANGED <<current, chosen, call>>
    /\ TwoFrame

\* choose() returns in the run() of scraper s; change_select sends its POST
TwoChoose(s) ==
    /\ pc[s] \in {"chooseY", "chooseX", "chooseYear"}
    /\ \E i \in 1..Len(OptionsOf(StageOfPc(pc[s]), options[s])) :
        LET kind == StageOfPc(pc[s])
            opt == OptionsOf(kind, options[s])[i]
        IN  /\ chosen' = [chosen EXCEPT ![s][FieldOf(kind)] = opt]
            /\ current' = [current EXCEPT ![s][InputOf(kind)] = opt.val]
            /\ call' = [call EXCEPT ![s] =
                           change_select(kind, opt.val, current[s],
                                         form_id[Self(s)], view_state[Self(s)])]
            /\ pc' = [pc EXCEPT ![s] = SelPc(kind)]
    /\ UNCHANGED <<view_state, form_id, gets, issued>>
    /\ TwoFrame

\* an attempt of the call of scraper s fails and the loop goes on
TwoFails(s) ==
    /\ MayAttempt(call[s]) /\ ~Exhausted(call[s])
    /\ call' = [call EXCEPT ![s].attempt = @ + 1]
    /\ UNCHANGED <<pc, view_state, form_id, current, chosen, gets, issued>>
    /\ TwoFrame

\* the last attempt fails: the run() of scraper s ends
TwoRaises(s) ==
    /\ MayAttempt(call[s]) /\ Exhausted(call[s])
    /\ call' = [call EXCEPT ![s] = NoCall]
    /\ pc' = [pc EXCEPT ![s] = "ended"]
    /\ UNCHANGED <<view_state, form_id, current, chosen, gets, issued>>
    /\ TwoFrame

\* the call of scraper s returns: the token is kept in self, and the run()
\* goes on to the next prompt, to the refresh, to the page fetch, to its end
TwoReturns(s) ==
    /\ MayAttempt(call[s])
    /\ \E v \in {None, NextToken(s)} :
        LET xml == [vs |-> v, combTablePnl |-> NoUpdate, groupingTable |-> NoUpdate]
            returned == NewViewState(xml, call[s].data.view_state)
            vs == AssignedToken(returned, view_state[Self(s)])
            kind == call[s].kind
        IN  /\ view_state' = [view_state EXCEPT ![Self(s)] = vs]
            /\ issued' = [issued EXCEPT ![s] = returned]
            /\ call' = [call EXCEPT ![s] =
                   CASE kind = "year" ->
                            RefreshCall(current[s], form_id[Self(s)],
                                        view_state'[Self(s)])
                     [] kind = "refresh" ->
                            PageCall(1, 1, current[s], form_id[Self(s)],
                                     view_state'[Self(s)])
                     [] OTHER -> NoCall]
            /\ pc' = [pc EXCEPT ![s] =
                   CASE kind \in {"yaxis", "xaxis"} -> ChoosePc(NextStage(kind))
                     [] kind = "year" -> "refresh"
                     [] kind = "refresh" -> "paging"
                     [] OTHER -> "ended"]
    /\ UNCHANGED <<form_id, current, chosen, gets>>
    /\ TwoFrame

NextTwo ==
    \E s \in Scrapers :
        \/ TwoBootstrap(s)
        \/ TwoChoose(s)
        \/ TwoFails(s)
        \/ TwoRaises(s)
        \/ TwoReturns(s)

SpecTwo == InitTwo /\ [][NextTwo]_vars

-----------------------------------------------------------------------------
(* refresh_and_save against a server that holds a table of T rows and      *)
(* answers the page request it is sent (offset groupingTable_first, size   *)
(* groupingTable_rows) with the rows offset .. min(offset + size, T) - 1;   *)
(* small tables from the first page on, and tables of about 500 pages from *)
(* the point where all pages but the last ProbeTail have been fetched      *)

\* largest small table
MaxTable == 7

\* row j of the table, j = 1 .. T
ServerRow(j) == <<DecStr(j), <<"r">>>>

\* the rows the server sends for (offset, size)
ServerPage(total, offset, size) ==
    LET last == IF offset + size <= total THEN offset + size ELSE total
    IN  IF offset < last THEN [i \in 1..(last - offset) |-> ServerRow(offset + i)]
        ELSE <<>>

\* the number a field of the POST holds
FieldNumber(txt) ==
    CHOOSE n \in 0..(SafetyCap * (MaxPageSize + 1)) : DecStr(n) = txt

\* the answer of the server to the page request c
ServerAnswer(total, c) ==
    [vs |-> None, combTablePnl |-> NoUpdate,
     groupingTable |->
         Frag("group", <<>>,
              ServerPage(total, FieldNumber(c.data.fields["groupingTable_first"]),
                         FieldNumber(c.data.fields["groupingTable_rows"])),
              NoInt, NoInt)]

\* the first fragment: the first page_size rows, the page size, and the
\* row count when the server reports it
ServerFragment(total, page_size, reported) ==
    Frag("comb", HeadRow, ServerPage(total, 0, page_size),
         IF reported THEN total ELSE NoInt, page_size)

Server(total) == [kind |-> "server", total |-> total]

\* the locals of refresh_and_save when page `index` is about to be fetched
\* and all pages before it came back as the server sends them
LoopAt(total, page_size, reported, index) ==
    [FirstPage(ServerFragment(total, page_size, reported)) EXCEPT
         !.rows = ServerPage(total, 0, index * page_size),
         !.page_index = index,
         !.fetched_pages = index]

InitTable ==
    /\ pc = "table"
    /\ view_state = "t0"
    /\ form_id = "f1"
    /\ current = [InitialCurrent EXCEPT !["yaxisVar_input"] = yA.val,
                                        !["xaxisVar_input"] = xA.val,
                                        !["selectedYear_input"] = yr24.val]
    /\ options = [y |-> <<yA>>, x |-> <<xA>>, year |-> <<yr24>>]
    /\ auto = TRUE
    /\ chosen = [y |-> yA, x |-> xA, year |-> yr24]
    /\ \E reported \in BOOLEAN :
        \/ \E total \in 0..MaxTable, page_size \in 1..MaxPageSize :
            /\ result = Server(total)
            /\ page = LoopAt(total, page_size, reported, 1)
        \/ \E total \in (SafetyCap - 1)..(SafetyCap + 1) :
            /\ result = Server(total)
            /\ page = LoopAt(total, 1, reported, ProbeStart)
    /\ call = PageCall(page.page_index, page.page_size, current, form_id,
                       view_state)
    /\ files = [k \in ArtifactKinds |-> NoFile]
    /\ log = <<>>
    /\ gets = 1
    /\ posted = TRUE
    /\ calls = <<>>
    /\ issued = "t0"
    /\ answers = <<>>
    /\ document = [status |-> "ok", input |-> TRUE, form |-> TRUE]
    /\ rendered = <<>>

\* the server answers and the loop goes on
TableNext ==
    /\ pc = "table"
    /\ MayAttempt(call) /\ call.kind = "page"
    /\ PageNext(ServerAnswer(result.total, call))

\* the server answers and the loop ends
TableLast ==
    /\ pc = "table"
    /\ MayAttempt(call) /\ call.kind = "page"
    /\ PageLast(ServerAnswer(result.total, call))

NextTable == TableNext \/ TableLast

SpecTable == InitTable /\ [][NextTable]_vars

-----------------------------------------------------------------------------
(* refresh_and_save with the envelope of the refresh known beforehand: the *)
(* answer the server will give to the refresh is fixed at the start, and   *)
(* the pages after it are answered in every way                            *)

Answer(xml) == [kind |-> "answer", xml |-> xml]

InitAnswer ==
    /\ pc = "refresh"
    /\ view_state = "t0"
    /\ form_id = "f1"
    /\ current = [InitialCurrent EXCEPT !["yaxisVar_input"] = yA.val,
                                        !["xaxisVar_input"] = xA.val,
                                        !["selectedYear_input"] = yr24.val]
    /\ options = [y |-> <<yA>>, x |-> <<xA>>, year |-> <<yr24>>]
    /\ auto = TRUE
    /\ chosen = [y |-> yA, x |-> xA, year |-> yr24]
    /\ page = NoPage
    /\ call = RefreshCall(current, form_id, view_state)
    /\ files = [k \in ArtifactKinds |-> NoFile]
    /\ log = <<>>
    /\ gets = 1
    /\ posted = TRUE
    /\ calls = <<>>
    /\ issued = "t0"
    /\ answers = <<>>
    /\ result \in {Answer(xml) : xml \in RefreshEnvelopes}
    /\ document = [status |-> "ok", input |-> TRUE, form |-> TRUE]
    /\ rendered = <<>>

\* the refresh is answered with the envelope
AnswerNone == MayAttempt(call) /\ call.kind = "refresh" /\ RefreshNone(result.xml)
AnswerSave == MayAttempt(call) /\ call.kind = "refresh" /\ RefreshSave(result.xml)
AnswerPaging == MayAttempt(call) /\ call.kind = "refresh" /\ RefreshPaging(result.xml)

NextAnswer ==
    \/ AnswerNone
    \/ AnswerSave
    \/ AnswerPaging
    \/ PageRaises
    \/ PostFails
    \/ RefreshRaises
    \/ PageReturnsNext
    \/ PageReturnsLast

SpecAnswer == InitAnswer /\ [][NextAnswer]_vars

(***************************************************************************)
(* Properties of run(), checked under Spec                                 *)
(***************************************************************************)

\* C3: the token every POST of a selection, refresh or page fetch submits is
\* the token the most recent successful exchange returned (the bootstrap
\* token if there was none), and so is the token the session holds: a failed
\* exchange and the retries inside an exchange do not change it.
C3_TokenChain ==
    /\ call.kind # "none" => call.data.view_state = issued
    /\ form_id # None => view_state = issued

C3_Witness ==
    /\ call.kind = "page"
    /\ call.attempt = 2
    /\ call.data.view_state = "t1"
    /\ issued = "t1"
    /\ document.status = "ok"

\* C4: once bootstrap has returned without raising, the token the session
\* holds is a non-empty string, and stays one after every later exchange.
C4_NonEmptyToken ==
    form_id # None => view_state # None /\ view_state # ""

Artifacts == {k \in ArtifactKinds : files[k] # NoFile}

\* C5: on a bootstrap document without a ViewState input, or without a form
\* that has an id, the run ends after exactly one GET with the bootstrap
\* error logged, sends no POST and writes no artifact.
C5_BootstrapFatal ==
    (document.status = "ok" /\ (~document.input \/ ~document.form)) =>
        /\ pc = "done"
        /\ gets = 1
        /\ ~posted /\ call = NoCall /\ calls = <<>>
        /\ Artifacts = {}
        /\ Len(log) = 1
        /\ log[1].level = "ERROR" /\ log[1].msg = "Initial bootstrap failed"

C5_Witness ==
    /\ pc = "done"
    /\ document = [status |-> "ok", input |-> TRUE, form |-> FALSE]
    /\ view_state = "t0"
    /\ gets = 1
    /\ log[1].source = "Main form id not found"

Refreshing ==
    call.kind = "refresh" \/ \E i \in 1..Len(calls) : calls[i].kind = "refresh"

\* C6: the refresh exchange is sent only after a Y-axis selection, then an
\* X-axis selection, then a year selection have each returned, in that
\* order, on the command-line path and on the interactive path alike.
C6_SelectionsBeforeRefresh ==
    Refreshing =>
        /\ Len(calls) >= 3
        /\ calls[1] = Outcome([kind |-> "yaxis", page_index |-> 0], "returned", 0)
        /\ calls[2] = Outcome([kind |-> "xaxis", page_index |-> 0], "returned", 0)
        /\ calls[3] = Outcome([kind |-> "year", page_index |-> 0], "returned", 0)
        /\ \A i \in 1..Len(calls) : calls[i].kind = "refresh" => i = 4

C6_Witness ==
    /\ call.kind = "refresh"
    /\ ~auto
    /\ Len(calls) = 3

ErrorLogged == \E i \in 1..Len(log) : log[i].level = "ERROR"

\* C8: when the exchange of a selection or of the refresh fails after the
\* retries, run() logs the failure, the run ends, no further exchange is sent
\* and no artifact is written.
C8_FailureLoggedAndFatal ==
    \A i \in 1..Len(calls) :
        (calls[i].result = "raised"
         /\ calls[i].kind \in {"yaxis", "xaxis", "year", "refresh"}) =>
            /\ ErrorLogged
            /\ i = Len(calls) /\ call = NoCall
            /\ Artifacts = {}

\* the page fetches of the run, in the order they ended
PageOutcomes == SelectSeq(calls, LAMBDA c : c.kind = "page")

RECURSIVE FetchedRows(_)
\* the rows the server rendered for the page fetches that returned
FetchedRows(cs) ==
    IF cs = <<>> THEN <<>>
    ELSE (IF Head(cs).result = "returned"
          THEN Body(Head(cs).page_index, Head(cs).nrows) ELSE <<>>)
         \o FetchedRows(Tail(cs))

\* the number of pages of size page_size that hold total_rows rows
PagesFor(total_rows, page_size) ==
    CHOOSE k \in 1..total_rows :
        k * page_size >= total_rows /\ (k - 1) * page_size < total_rows

ExactPremise ==
    /\ page.fragment.kind = "table"
    /\ page.fragment.rowCount # NoInt
    /\ page.fragment.rows # NoInt /\ page.fragment.rows >= 1
    /\ page.fragment.rowCount > Len(page.fragment.body)
    /\ \A i \in 1..Len(PageOutcomes) :
        PageOutcomes[i].result = "returned" /\ PageOutcomes[i].nrows >= 1

\* C9: when the first fragment carries rowCount and rows (page size), rowCount
\* exceeds the number of first-page rows and every page fetch returns at
\* least one row, fetch_page is called with the indices 1, 2, ... in order,
\* exactly ceil(rowCount / rows) - 1 times by the end of the run, and the rows
\* collected are the first page's rows followed by each page's rows in order.
C9_ExactPagination ==
    ExactPremise =>
        LET K == PagesFor(page.fragment.rowCount, page.fragment.rows)
        IN  /\ \A i \in 1..Len(PageOutcomes) : PageOutcomes[i].page_index = i
            /\ Len(PageOutcomes) <= K - 1
            /\ call.kind = "page" =>
                   call.page_index = Len(PageOutcomes) + 1 /\ call.page_index <= K - 1
            /\ call.kind = "none" => pc = "done" /\ Len(PageOutcomes) = K - 1
            /\ page.rows = page.fragment.body \o FetchedRows(PageOutcomes)

\* rowCount 5, page size 2, a first page of 2 rows: 2 more fetches, 5 rows
C9_Witness ==
    /\ ExactPremise
    /\ page.fragment.rowCount = 5 /\ page.fragment.rows = 2
    /\ Len(page.fragment.body) = 2
    /\ pc = "done"
    /\ Len(PageOutcomes) = 2
    /\ Len(page.rows) = 5

Stopped(c) == c.kind = "page" /\ (c.result = "raised" \/ c.nrows = 0)

Persisting == pc = "done" /\ page.fragment.kind = "table"

C15_NoRowsWitness ==
    /\ Persisting
    /\ page.rows = <<>>
    /\ Artifacts = {"raw"}

\* C17: the probing loop runs only when the first fragment gives a page size
\* and no rowCount; when rowCount is given and does not exceed the number of
\* first-page rows, no further page is fetched.
C17_ProbeOnlyWithoutTotal ==
    page.fragment.kind = "table" =>
        /\ page.loop = "probe" =>
               page.fragment.rowCount = NoInt /\ page.fragment.rows # NoInt
        /\ (page.fragment.rowCount # NoInt
            /\ page.fragment.rowCount <= Len(page.fragment.body))
               => PageOutcomes = <<>> /\ call.kind # "page"

(***************************************************************************)
(* Properties of the probing loop, checked under SpecProbe                 *)
(***************************************************************************)

\* C18: the probing loop fetches the pages 1, 2, ... in order, stops right
\* after the first fetch that fails, returns no row or returns fewer rows
\* than the page size, and never fetches a page beyond index 499, however
\* many full pages the server sends.
C18_ProbeTerminates ==
    /\ \A i \in 1..Len(PageOutcomes) :
        /\ PageOutcomes[i].page_index = i
        /\ i <= 499
        /\ (PageOutcomes[i].result = "raised"
            \/ PageOutcomes[i].nrows < page.page_size)
               => i = Len(PageOutcomes) /\ call = NoCall /\ pc = "done"
    /\ call.kind = "page" =>
           call.page_index = Len(PageOutcomes) + 1 /\ call.page_index <= 499
    /\ Len(PageOutcomes) = 499 => call = NoCall /\ pc = "done"
    /\ call = NoCall => pc = "done"

\* every page came back full: the loop ended after the fetch of page 499
C18_Witness ==
    /\ pc = "done"
    /\ page.loop = "probe"
    /\ Len(PageOutcomes) = 499
    /\ PageOutcomes[499].result = "returned"
    /\ PageOutcomes[499].nrows = page.page_size

(***************************************************************************)
(* Properties of the parsers, checked under SpecExtract                    *)
(***************************************************************************)

Parsed == result.kind \in {"parse_table", "parse_datatable_fragment"}

\* C11: every row a table parser returns has exactly len(headers) cells,
\* for parse_table and for parse_datatable_fragment.
C11_RowWidths ==
    Parsed =>
        \A k \in 1..Len(result.out.rows) :
            Len(result.out.rows[k]) = Len(result.out.headers)

BlankHead(head) ==
    \A k \in 1..Len(head) : \A i \in 1..Len(head[k]) : Strip(head[k][i]) = <<>>

\* S No, Maker, the first n - 3 month names, TOTAL
MonthHeader(n) ==
    <<SNo, Maker>> \o SubSeq(MonthNames, 1, n - 3) \o <<TOTAL>>

\* C12: with the header missing or blank and a first data row of 5 to 15
\* cells whose first cell is an integer and whose second is not numeric, the
\* inferred header is S No, Maker, as many month names as the row has cells
\* between the maker and the last one, TOTAL: one name per cell of the row.
C12_InferredHeader ==
    (/\ Parsed
     /\ BlankHead(result.html.table.head)
     /\ result.out.rows # <<>>
     /\ Len(result.html.table.body[1]) \in 5..15
     /\ IsDigits(Strip(result.html.table.body[1][1]))
     /\ ~IsNumeric(Strip(result.html.table.body[1][2])))
    => result.out.headers = MonthHeader(Len(result.html.table.body[1]))

OutRows == IF result.kind = "fetch_page" THEN result.rows ELSE result.out.rows

Commas(txt) == Len(SelectSeq(txt, LAMBDA c : c = ","))

\* C13: in the rows the parsers and fetch_page return, a cell made of digits
\* and commas only has its commas removed, and any other cell keeps them.
C13_NumericCells ==
    (Parsed \/ result.kind = "fetch_page") =>
        /\ \A k \in 1..Len(OutRows) : \A i \in 1..Len(OutRows[k]) :
               IsNumeric(OutRows[k][i]) => Commas(OutRows[k][i]) = 0
        /\ Len(OutRows) = Len(result.html.table.body) =>
               \A k \in 1..Len(OutRows) :
                   \A i \in 1..Len(OutRows[k]) :
                       (i <= Len(result.html.table.body[k])
                        /\ ~IsNumeric(Strip(result.html.table.body[k][i])))
                       => Commas(OutRows[k][i])
                              = Commas(result.html.table.body[k][i])

WhitespaceNormal(rows) ==
    [k \in 1..Len(rows) |->
        [i \in 1..Len(rows[k]) |-> clean_cell_text(rows[k][i])]]

\* C14: the headers and rows of the scraper, written with build_html_table
\* and read with parse_table, come back the same and in the same order, up to
\* whitespace inside the cells.
C14_RoundTrip ==
    result.kind = "round_trip" =>
        /\ WhitespaceNormal(<<result.back.headers>>)
               = WhitespaceNormal(<<result.out.headers>>)
        /\ WhitespaceNormal(result.back.rows) = WhitespaceNormal(result.out.rows)

\* the rows of a tbody that have a cell with text
WithText(body) ==
    SelectSeq(body, LAMBDA r : \E i \in 1..Len(r) : Strip(clean_cell_text(r[i])) # <<>>)

\* C19: fetch_page(index, size) sends an exchange whose source, execute and
\* render are the result table, whose fields carry the row offset
\* index * size, the page size and the fields of the session that are set;
\* it returns the body rows of the groupingTable fragment of the answer and
\* nothing of its header, and no row when the answer has no such fragment.
C19_FetchPage ==
    result.kind = "fetch_page" =>
        /\ call.kind = "page" /\ call.attempt = 0
        /\ call.data.source = "groupingTable"
        /\ call.data.execute = "groupingTable"
        /\ call.data.render = "groupingTable"
        /\ call.data.form_id = form_id /\ call.data.view_state = view_state
        /\ call.data.fields["groupingTable_first"]
               = DecStr(call.page_index * result.page_size)
        /\ call.data.fields["groupingTable_rows"] = DecStr(result.page_size)
        /\ \A k \in CurrentKeys :
               IF current[k] # None THEN call.data.fields[k] = current[k]
               ELSE k \notin DOMAIN call.data.fields
        /\ result.group.kind # "table" => result.rows = <<>>
        /\ result.group.kind = "table" =>
               LET kept == WithText(result.group.body)
               IN  result.rows =
                       [k \in 1..Len(kept) |->
                           [i \in 1..Len(kept[k]) |-> clean_cell_text(kept[k][i])]]

\* page 2 of size 2 is asked for at offset 4; the answer has a header, and
\* only its body rows come back
C19_Witness ==
    /\ result.kind = "fetch_page"
    /\ call.page_index = 2 /\ result.page_size = 2
    /\ call.data.fields["groupingTable_first"] = <<"4">>
    /\ current["selectedYear_input"] = yr24.val
    /\ result.group.kind = "table" /\ result.group.head = HeadRow
    /\ Len(result.rows) = 2

\* the answer has no groupingTable fragment: no row
C19_NoFragmentWitness ==
    /\ result.kind = "fetch_page"
    /\ result.group = NoUpdate
    /\ result.rows = <<>>

(***************************************************************************)
(* Properties of send_ajax_request, checked under SpecTransport            *)
(***************************************************************************)

\* C1 (as stated): a call that returns gives back the text of the ViewState
\* update whenever the envelope has such an update, whatever the text is, and
\* the token it was called with when the envelope has none.
C1_Original ==
    result.kind = "returned" =>
        result.token = IF result.xml_vs # None THEN result.xml_vs
                       ELSE call.data.view_state

\* C1 (amended): a call that returns gives back the text of the ViewState
\* update verbatim when the envelope has such an update and its text is not
\* empty; when the envelope has no such update, or its text is empty, it gives
\* back exactly the token it was called with.
C1_NewToken ==
    result.kind = "returned" =>
        /\ (result.xml_vs # None /\ result.xml_vs # "")
               => result.token = result.xml_vs
        /\ (result.xml_vs = None \/ result.xml_vs = "")
               => result.token = call.data.view_state

C1_Witness ==
    /\ result.kind = "returned"
    /\ result.xml_vs = "t2"
    /\ call.data.view_state = "t0"
    /\ result.token = "t2"

\* the envelope whose ViewState update has empty text: the given token is kept
C1_EmptyTextWitness ==
    /\ result.kind = "returned"
    /\ result.xml_vs = ""
    /\ call.data.view_state = "t0"
    /\ result.token = "t0"

AllFailed(seq) == \A i \in 1..Len(seq) : seq[i] = "failed"

\* C2: one call with retry bound N makes its attempts one after another, makes
\* at most N of them, makes none after an attempt answered with status 200 and
\* returns at that attempt, and raises, returning nothing, exactly when all N
\* attempts have failed.
C2_Retries ==
    /\ Len(answers) <= call.retries
    /\ Len(answers) = call.attempt
    /\ \A i \in 1..Len(answers) : answers[i] = "200" => i = Len(answers)
    /\ result.kind = "returned" <=>
           (answers # <<>> /\ answers[Len(answers)] = "200")
    /\ result.kind = "returned" => call.kind = "none"
    /\ result.kind = "raised" =>
           /\ Len(answers) = call.retries
           /\ AllFailed(answers)
           /\ call.kind = "none"
    /\ (Len(answers) = call.retries /\ AllFailed(answers) /\ call.retries > 0)
           => result.kind = "raised"

C2_Witness ==
    /\ call.retries = Retries
    /\ answers = <<"failed", "failed", "failed">>
    /\ result.kind = "raised"


\* C16: a call of send_ajax_request, whether it returns or raises, leaves
\* the session's token, its form id and the tracked field map as they were,
\* and leaves the data it was called with (extra_fields among them) as they
\* were; the returned token is only handed to the caller.
C16_Stateless ==
    [][/\ view_state' = view_state
       /\ form_id' = form_id
       /\ current' = current
       /\ call'.data = call.data]_vars

\* a call given t0 returned t2 and the session's token is still its own
C16_Witness ==
    /\ result.kind = "returned"
    /\ call.data.view_state = "t0"
    /\ result.token = "t2"
    /\ view_state = None
    /\ call.data.fields = StateFields(InitialCurrent)

\* the values run() could take from a rendered dropdown, filtered as the
\* options of the document are (lines 204-211)
Offered(kind, raw) ==
    LET opts == IF kind = "year" THEN FilterYear(get_dropdown_options(raw))
                ELSE get_dropdown_options(raw)
    IN  {opts[i].val : i \in 1..Len(opts)}

\* C20: the X-axis value submitted after a Y-axis selection repopulated the
\* X-axis dropdown, and the year value submitted after an X-axis selection
\* repopulated the year dropdown, is a value of the repopulated option set.
C20_Rederived ==
    call.kind \in {"xaxis", "year"} /\ rendered # <<>> =>
        call.data.fields[InputOf(call.kind)] \in Offered(call.kind, rendered)

----------------------------------------------------------------------------
(* Further properties of run(), checked under Spec *)

\* the selection whose exchange failed for good
FailedSelection == calls[Len(calls)].kind

\* C21: when a selection exchange has failed, the token and the field map are
\* as they were before the selection was attempted: the token is the one the
\* server issued last and the field of the selection is still unset.
C21_StateAfterFailure ==
    pc = "crashed" =>
        /\ view_state = issued
        /\ current[InputOf(FailedSelection)] = None

----------------------------------------------------------------------------
(* Further properties of the parsers, checked under SpecExtract *)

\* col_0, col_1, ... for n columns
Positional(n) == [i \in 1..n |-> ColName(i - 1)]

\* C22: with the header missing or blank and a first data row that has fewer
\* than 5 cells after the serial number and the label, no month header is
\* inferred: the headers are col_0, col_1, ..., one for each column of the
\* widest row.
C22_PositionalFallback ==
    (/\ Parsed
     /\ BlankHead(result.html.table.head)
     /\ result.out.rows # <<>>
     /\ Len(result.html.table.body[1]) - 2 < 5)
    => result.out.headers = Positional(MaxLen(result.html.table.body))

\* C23: the headers a table parser returns are never empty, whatever the
\* fragment, also without header markup and without data rows.
C23_HeadersNeverEmpty == Parsed => result.out.headers # <<>>

\* C23, as the parsers have it: the headers are empty exactly when the
\* fragment has no header cell and no data row is returned; with a header or
\* a data row, headers are taken, inferred or made up as col_0, col_1, ...
C23_HeadersSynthesized ==
    Parsed =>
        (result.out.headers = <<>>
            <=> result.html.table.head = <<>> /\ result.out.rows = <<>>)

\* no header markup, data rows: placeholder headers
C23_Witness ==
    /\ result.kind = "parse_datatable_fragment"
    /\ result.html.table.head = <<>>
    /\ Len(result.out.rows) = 2
    /\ result.out.headers = Positional(3)

\* no header markup and no data row: no headers
C23_EmptyWitness ==
    /\ Parsed
    /\ result.html.table.head = <<>> /\ result.html.table.body = <<>>
    /\ result.out.headers = <<>>

----------------------------------------------------------------------------
(* Further properties of the pagination, checked under Spec *)

\* C24: whenever a pagination loop ended because a page fetch raised or
\* returned no rows, the log has an entry that names the page reached.
C24_AbortLogged ==
    \A i \in 1..Len(calls) :
        Stopped(calls[i]) =>
            \E j \in 1..Len(log) :
                /\ log[j].source = "page"
                /\ log[j].n \in {calls[i].page_index, calls[i].page_index + 1}

----------------------------------------------------------------------------
(* Properties of the label matching, checked under SpecMatch *)

Norm(txt) == Lower(Strip(txt))

Equal(label, opts) == {i \in 1..Len(opts) : Norm(opts[i].lab) = Norm(label)}

Containing(label, opts) ==
    {i \in 1..Len(opts) : Contains(Norm(label), Norm(opts[i].lab))}

\* m is what the claim says is picked for the label among opts
PickedAsStated(label, opts, m) ==
    IF label = <<>> THEN m = NoOption
    ELSE IF Equal(label, opts) # {} THEN \E i \in Equal(label, opts) : m = opts[i]
    ELSE IF Containing(label, opts) # {}
    THEN \E i \in Containing(label, opts) :
            /\ m = opts[i]
            /\ \A j \in Containing(label, opts) : i <= j
    ELSE m = NoOption

\* C25: for a requested label the option with an equal label (trimmed,
\* case-insensitive) is picked if there is one, otherwise the first option
\* whose label contains it, otherwise none; when one of three requested
\* labels matches no option, the run is not on the automatic path and each
\* selection that is sent follows its own prompt; when all three match, the
\* matched options are the ones selected.
C25_Matching ==
    result.kind = "matched" =>
        /\ PickedAsStated(result.args.y_label, options.y, result.m.y)
        /\ PickedAsStated(result.args.x_label, options.x, result.m.x)
        /\ PickedAsStated(result.args.year_label, options.year, result.m.year)
        /\ AllGiven(result.args) /\ ~AllMatched(result.m) =>
               /\ ~auto
               /\ pc \in {"chooseY", "selY", "chooseX", "selX", "chooseYear", "selYear"}
               /\ pc = "chooseY" => chosen = NoChoice /\ call = NoCall
               /\ call.kind = "yaxis" =>
                      chosen.x = NoOption /\ chosen.year = NoOption
               /\ call.kind = "xaxis" => chosen.year = NoOption
               /\ call.kind \in {"yaxis", "xaxis", "year"} =>
                      /\ pc = SelPc(call.kind)
                      /\ \E i \in 1..Len(OptionsOf(call.kind, options)) :
                            chosen[FieldOf(call.kind)]
                                = OptionsOf(call.kind, options)[i]
                      /\ call.data.fields[InputOf(call.kind)]
                             = chosen[FieldOf(call.kind)].val
        /\ AllGiven(result.args) /\ AllMatched(result.m) =>
               auto /\ chosen = result.m

\* --y ' nO' with the options 'V no' and 'No': the equal label wins over the
\* containing one that comes first; --year 9 matches nothing, and the third
\* selection is sent after three prompts
C25_Witness ==
    /\ result.kind = "matched"
    /\ result.args.y_label = <<" ", "n", "O">>
    /\ options.y[1] = yN
    /\ result.m.y = yB
    /\ result.args.x_label # <<>>
    /\ result.args.year_label = <<"9">> /\ result.m.year = NoOption
    /\ ~auto
    /\ call.kind = "year" /\ Len(calls) = 2

\* --year 2 with the years 25 and 24: the first containing label is picked,
\* and the run is on the automatic path
C25_AutoWitness ==
    /\ result.kind = "matched"
    /\ result.args.year_label = <<"2">>
    /\ options.year = <<yr25, yr24>>
    /\ auto /\ chosen.year = yr25
    /\ call.kind = "year"

----------------------------------------------------------------------------
(* Properties of the loops under cancellation, checked under SpecCancel *)

\* C26: once cancellation has been requested, no further page is fetched:
\* the only page fetch there can be is the one that was under way.
C26_CancelStopsLoop ==
    result.cancelled /\ call.kind = "page" => call.page_index = result.at

----------------------------------------------------------------------------
(* Properties of the artifact writes, checked under SpecWrite *)

\* C27: at every moment, also after an interruption, the file at each final
\* path is absent, the complete earlier version, or the complete new one.
C27_AtomicWrites ==
    \A k \in ArtifactKinds :
        \/ files[k] = NoFile
        \/ files[k] = EarlierFiles[k]
        \/ files[k] = ToWrite(page)[k]

----------------------------------------------------------------------------
(* Properties of two concurrent scrapers, checked under SpecTwo *)

\* C28: with the steps of two scrapers interleaved in any order, each scraper
\* holds only the token and the form id the server gave to it, and every
\* POST of a scraper carries its own latest token, its own form id and the
\* field values of its own run.
C28_Isolation ==
    \A s \in Scrapers :
        /\ view_state[s] = issued[s]
        /\ view_state[s] \in {None, BootToken(s), NextToken(s)}
        /\ form_id[s] \in {None, FormOf(s)}
        /\ call[s].kind # "none" =>
               /\ call[s].data.view_state = issued[s]
               /\ call[s].data.view_state \in {BootToken(s), NextToken(s)}
               /\ call[s].data.form_id = FormOf(s)
               /\ \A k \in CurrentKeys :
                      IF current[s][k] # None
                      THEN call[s].data.fields[k] = current[s][k]
                      ELSE k \notin DOMAIN call[s].data.fields
               /\ \A kind \in {"yaxis", "xaxis", "year"} :
                      current[s][InputOf(kind)] = chosen[s][FieldOf(kind)].val

\* scraper a is in its X-axis selection with a renewed token and the first
\* Y-axis option while scraper b fetches a page with its first token and the
\* second Y-axis option
C28_Witness ==
    /\ call["a"].kind = "xaxis" /\ call["a"].attempt = 1
    /\ call["a"].data.view_state = "a1"
    /\ call["a"].data.fields["yaxisVar_input"] = yA.val
    /\ call["b"].kind = "page"
    /\ call["b"].data.view_state = "b0"
    /\ call["b"].data.fields["yaxisVar_input"] = yB.val

----------------------------------------------------------------------------
(* Properties of a scrape of a well-behaved server, checked under SpecTable *)

\* the whole table of the server, in order
WholeTable == ServerPage(result.total, 0, result.total)

\* C29 (as stated): at the end of the scrape the accumulated rows are the T
\* rows of the table, each once and in order, whether or not rowCount is
\* reported.
C29_Original == pc = "done" => page.rows = WholeTable

\* C29 (amended): the accumulated rows are always the first rows of the
\* table, in order and without gap or duplicate; at the end of the scrape
\* they are the whole table when rowCount is reported, and, when only the
\* page size is reported, when the table has at most 500 pages.
C29_WholeTable ==
    /\ Len(page.rows) <= result.total
    /\ page.rows = ServerPage(result.total, 0, Len(page.rows))
    /\ pc = "done" =>
           /\ files["raw"].content = page.fragment
           /\ (page.fragment.rowCount # NoInt
               \/ result.total <= SafetyCap * page.page_size)
                  => page.rows = WholeTable

\* a table of 7 rows in pages of 2, no rowCount: 3 more pages, 7 rows
C29_Witness ==
    /\ pc = "done"
    /\ result.total = 7 /\ page.page_size = 2
    /\ page.fragment.rowCount = NoInt
    /\ Len(calls) = 3
    /\ page.rows = WholeTable /\ Len(page.rows) = 7
    /\ files["csv"].content.rows = page.rows

\* a table of 501 rows in pages of 1 with rowCount: page 500 is fetched
C29_ExactWitness ==
    /\ pc = "done"
    /\ result.total = SafetyCap + 1 /\ page.fragment.rowCount = SafetyCap + 1
    /\ Len(page.rows) = SafetyCap + 1

\* a table of 501 rows in pages of 1 without rowCount: the loop ends after
\* page 499 and the last row is missing
C29_CapWitness ==
    /\ pc = "done"
    /\ result.total = SafetyCap + 1 /\ page.fragment.rowCount = NoInt
    /\ Len(page.rows) = SafetyCap

----------------------------------------------------------------------------
(* Properties of the refresh, checked under SpecAnswer *)

\* the refresh has returned
Refreshed ==
    calls # <<>> /\ calls[1].kind = "refresh" /\ calls[1].result = "returned"

\* C30: when the refresh response holds neither a combTablePnl update nor a
\* groupingTable update with content, no page is fetched, no artifact is
\* written and an error is logged; when both updates are there with content,
\* the combTablePnl fragment is the one that is parsed and saved.
C30_RefreshFragment ==
    Refreshed =>
        LET comb == extract_update_fragment(result.xml, "combTablePnl")
            group == extract_update_fragment(result.xml, "groupingTable")
        IN  /\ ~Truthy(comb) /\ ~Truthy(group) =>
                   /\ pc = "done" /\ call = NoCall /\ Len(calls) = 1
                   /\ \A k \in ArtifactKinds : files[k] = NoFile
                   /\ \E j \in 1..Len(log) :
                          log[j].level = "ERROR" /\ log[j].msg = "No table fragment"
            /\ Truthy(comb) /\ Truthy(group) =>
                   /\ page.fragment = comb
                   /\ page.headers = parse_datatable_fragment(comb).headers
                   /\ SubSeq(page.rows, 1, page.first_rows)
                          = parse_datatable_fragment(comb).rows
                   /\ pc = "done" =>
                          /\ files["raw"].content = comb
                          /\ page.rows # <<>> =>
                                 files["csv"].content.rows = page.rows

\* an empty combTablePnl update and no groupingTable update: an error, no file
C30_Witness ==
    /\ Refreshed
    /\ result.xml.combTablePnl = EmptyText /\ result.xml.groupingTable = NoUpdate
    /\ pc = "done" /\ ErrorLogged
    /\ Artifacts = {}

\* both updates with a table: the combTablePnl one is saved
C30_BothWitness ==
    /\ Refreshed
    /\ Truthy(result.xml.combTablePnl) /\ result.xml.groupingTable = GroupFrag
    /\ pc = "done"
    /\ files["raw"].content.tag = "comb"

====
